---- MODULE Spec2Model ----
(***************************************************************************)
(* Model of the taozen graph execution engine: one Tao (graph) instance    *)
(* with its Zens (steps), the batch loop of Tao.run / Tao.retry, the       *)
(* per-step execution chain Tao.executeZen -> Zen._execute ->              *)
(* Zen.executeCore, the pause gate, the cancellation token and the         *)
(* process-wide running counter.                                           *)
(*                                                                         *)
(* JavaScript runs each synchronous segment of an async function           *)
(* atomically and suspends at every await.  Each action below is one such  *)
(* segment; the position of every suspended async call is kept in dpc      *)
(* (the run()/retry() call) and in xpc (the per-step closure of a batch).  *)
(* Calls of the public API (run, pause, resume, cancel, retry) may arrive  *)
(* between any two segments.                                               *)
(***************************************************************************)
EXTENDS Integers, Sequences, FiniteSets, TLC

(* ---------------------------- bounds ----------------------------------- *)
MaxRetries == 1      \* retry() calls admitted in one behaviour
MaxCalls   == 3      \* pause(), cancel() and retry() calls that take effect
                     \* in one behaviour
MaxRetryPauses == 1  \* pause() calls that take effect in one behaviour of
                     \* SpecRetry
MaxAttempts == 3     \* largest maxAttempts of a retry policy
MaxOnCancel == 2     \* the count of a zen's onCancel invocations saturates here
MaxOtherDone == 1    \* run() calls of other graphs that finish in one
                     \* behaviour

(* ------------------------- program constants --------------------------- *)
maxConcurrentTaos == 10
\* The defaults Zen.executeWithRetry substitutes for falsy fields of the
\* retry configuration.
DefaultMaxAttempts   == 3
DefaultInitialDelay  == 1000
DefaultBackoffFactor == 2
DefaultMaxDelay      == 30000

(* ------------------------------ steps ---------------------------------- *)
\* Dependency edges built with Zen.after before the graph is run; the
\* domain of a graph is the set of its zens.
NoDeps(S) == [z \in S |-> {}]
Chain    == [NoDeps({"A", "B", "C"}) EXCEPT !["B"] = {"A"}, !["C"] = {"B"}]
Join     == [NoDeps({"A", "B", "C"}) EXCEPT !["C"] = {"A", "B"}]
Diamond  == [NoDeps({"A", "B", "C", "D"}) EXCEPT
               !["B"] = {"A"}, !["C"] = {"A"}, !["D"] = {"B", "C"}]
SelfLoop == [NoDeps({"A", "B"}) EXCEPT !["A"] = {"A"}]
TwoCycle == [NoDeps({"A", "B", "C"}) EXCEPT !["A"] = {"B"}, !["B"] = {"A"}]
Graphs == {Chain, Join, Diamond, SelfLoop, TwoCycle}

\* Every dependency relation over one, two and three zens, and the diamond
\* over four.
OrderGraphs ==
  UNION {[S -> SUBSET S] : S \in {{"A"}, {"A", "B"}, {"A", "B", "C"}}}
    \cup {Diamond}

\* The graphs whose zen A carries a retry policy or a timeout: A alone, and
\* A beside an independent zen B of the same batch.
PolicyGraphs == {NoDeps({"A"}), NoDeps({"A", "B"})}

\* Zen.retry(config) and Zen.timeout(ms): the configurations given to A.
\* A retry configuration is <<maxAttempts, initialDelay, backoffFactor,
\* maxDelay>>; NoRetry is config.retry undefined, timeout 0 no timeout.
NoRetry == << >>
RetryConfigs == (1..MaxAttempts) \X {0, 100} \X {2} \X {150, 1000}
Timeouts == {0, 50}
NoConfig == [retry |-> NoRetry, timeout |-> 0]
ZenConfigs == [retry : RetryConfigs \cup {NoRetry}, timeout : Timeouts]

Drivers == 0..MaxRetries   \* 0 is the run() call, k > 0 the k-th retry() call

(* ------------------------------ errors --------------------------------- *)
\* An Error is its message, kept as the sequence of its words so that the
\* code's tests on messages (===, String.includes) are computed, not assumed.
NoError == << >>
TaoCancelled        == <<"Tao", "cancelled">>
TaoCancelledPaused  == <<"Tao", "cancelled", "while", "paused">>
TaskCancelled       == <<"Task", "cancelled">>
TaskCancelledBefore == <<"Task", "cancelled", "before", "execution">>
CircularDependency  == <<"Circular", "dependency", "detected">>
AlreadyRun          == <<"Tao", "can", "only", "be", "run", "once">>
TooManyTaos         == <<"Too", "many", "concurrent", "taos">>
OnlyFailedRetry     == <<"Only", "failed", "or", "cancelled", "tasks", "can", "be", "retried">>
NotRegistered       == <<"Tao", "not", "registered">>
FailedByOther       == <<"Tao", "failed", "due", "to", "another", "zen", "error">>
AlreadyRunning(z)   == <<"Zen", z, "is", "already", "running">>
\* The message of Zen.waitForDependencies is Chinese for "dependency step
\* <name> not completed".
DepNotCompleted(z)  == <<"dependency", z, "not", "completed">>
TaskCancelledRetry  == <<"Task", "cancelled", "during", "retry">>
TaskCancelledWait   == <<"Task", "cancelled", "during", "retry", "wait">>
TimedOut(z)         == <<"Zen", z, "timed", "out">>
FnError(z)          == <<"boom", z>>      \* the rejection of z's own function
\* The rejection of the function of a zen with a retry policy at its
\* attempt n: every attempt fails with an error of its own.
AttemptError(z, n)  == <<"boom", z, ToString(n)>>

\* String.prototype.includes on word sequences.
Includes(msg, sub) ==
  \E i \in 0..(Len(msg) - Len(sub)) :
     \A j \in 1..Len(sub) : msg[i + j] = sub[j]


(* ------------------------------ events --------------------------------- *)
\* A TaoEvent's type, "zen:start" as <<"zen", "start">>, so that the
\* template `tao:${newStatus}` of updateStatus is computed from the status.
ZenStartEvent    == <<"zen", "start">>
ZenPauseEvent    == <<"zen", "pause">>
ZenFailEvent     == <<"zen", "fail">>
ZenCompleteEvent == <<"zen", "complete">>
TaoPauseEvent    == <<"tao", "pause">>
TaoResumeEvent   == <<"tao", "resume">>
TaoFailEvent     == <<"tao", "fail">>
TaoRetryEvent    == <<"tao", "retry">>
StatusEvent(newStatus) == <<"tao", newStatus>>
\* zen:retry carries data {attempt, delay}.
ZenRetryEvent(attempt, delay) == <<"zen", "retry", attempt, delay>>

\* The type of an event.
EventType(e) == <<e[1], e[2]>>

\* The union type TaozenEventType.
TaozenEventType ==
  {<<"zen", "start">>, <<"zen", "complete">>, <<"zen", "fail">>,
   <<"zen", "retry">>, <<"zen", "pause">>, <<"zen", "resume">>,
   <<"tao", "start">>, <<"tao", "complete">>, <<"tao", "fail">>,
   <<"tao", "pause">>, <<"tao", "resume">>, <<"tao", "retry">>}

\* Tao.onFinish(listener): the number of times the listener is called when
\* the events are delivered, once for each event of type tao:complete.
onFinish(events) ==
  Cardinality({i \in 1..Len(events) : EventType(events[i]) = <<"tao", "complete">>})

(* ------------------- reconstruction from the store ---------------------- *)
\* The ids gen.id() returns for the zens that restoreInstance creates: none
\* of them is an id generated before.
NewIds == {"N1", "N2", "N3"}
\* The TypeError of a method call on the undefined that Map.get returns.
UndefinedZen == <<"Cannot", "read", "properties", "of", "undefined">>
\* The graphs whose state the store holds in the restore specification.
RestoreGraphs ==
  UNION {[S -> SUBSET S] : S \in {{"A"}, {"A", "B"}}} \cup {Chain, Join}

(* ------------------------------ state ---------------------------------- *)
VARIABLES
  deps,                 \* Zen.dependencies of every zen
  retryFailedZensOnly,  \* TaoConfig.retryFailedZensOnly
  id,                   \* Tao.id is set (the graph is registered)
  status,               \* Tao.status
  hasRun,               \* Tao.hasRun
  runningTaos,          \* static Tao.runningTaos
  retries,              \* retry() calls admitted; also the index of the
                        \* current AbortController (retry installs a new one)
  aborted,              \* the controllers whose signal is aborted
  pauseGate,            \* Tao.pausePromise / pauseResolve are set
  runningZens,          \* Tao.runningZens
  zstatus, zvalue, zerror,   \* Zen.status, Zen.value, Zen.error
  dpc, dlayer, dfail, results,  \* the run()/retry() calls in progress
  xpc, xerr, xsig,      \* the per-step closures of the batches
  emits,                \* the events the latest segment handed to Tao.emit
  invoked,              \* per call, the zens whose function it has invoked
  runResult,            \* outcome of the latest run() call
  cancelCalls, pauseCalls,   \* cancel() / pause() calls that took effect
  cancelSnap,           \* zens whose function was executing at the latest
                        \* cancel() that took effect
  retryResult,          \* outcome of the latest retry() call
  cleared,              \* the zens map was emptied by dispose()
  otherTaos,            \* other graphs whose admitted run() has not settled
  store,                \* the record of the graph in Tao.store
  pauseReturn,          \* what the latest Tao.pause(taoId) returned
  refused,              \* a run() call was refused for the running limit
  otherDone,            \* run() calls of other graphs that have finished
  retrySnap,            \* zens that were completed at the latest retry()
                        \* that took effect
  config,               \* Zen.config: retry policy and timeout of every zen
  attempt,              \* the loop variable of Zen.executeWithRetry
  timer,                \* the timer of Zen.executeWithTimeout
  late,                 \* an executeCore left behind by a timeout still
                        \* awaits the function
  ncalls,               \* per zen, the calls of its function so far
  retryLog,             \* per zen, <<attempt, delay>> of every zen:retry
                        \* event emitted
  onCancel,             \* per call and zen, the invocations of the zen's
                        \* config.onCancel made while that call was in
                        \* progress
  mirror,               \* the record of a graph in Tao.store: taos[taoId]
                        \* and states[taoId]
  restored,             \* the Tao that restoreInstance builds from it, and
                        \* the static Tao.retry(taoId) running on it
  resolvedBefore        \* per call and zen, the zens whose function had
                        \* resolved in that call when the zen's function did

progVars == <<deps, retryFailedZensOnly, id, status, hasRun, runningTaos,
              retries, aborted, pauseGate, runningZens, zstatus, zvalue,
              zerror, dpc, dlayer, dfail, results, xpc, xerr, xsig, invoked,
              config, attempt, timer, late, ncalls, retryLog, cleared, store,
              mirror, restored>>
histVars == <<emits, runResult, retryResult, pauseReturn, refused, otherDone,
              otherTaos,
              cancelCalls, pauseCalls, cancelSnap, retrySnap, onCancel,
              resolvedBefore>>
vars == <<progVars, histVars>>

\* The zens map of the graph, and its insertion order (Tao.zen appends to
\* a Map).
Zens == DOMAIN deps
ZenOrder == SelectSeq(<<"A", "B", "C", "D">>, LAMBDA z : z \in Zens)

TaoStatuses == {"pending", "running", "completed", "failed", "cancelled", "paused"}
ZenStatuses == {"pending", "running", "completed", "failed", "cancelled"}
Undefined == << >>      \* Zen.value / a missing entry of the results map
NoSignal == 0 - 1       \* a closure that holds no abort listener

\* The abort listener of executeCore is registered from the call of the
\* function until the finally of Zen._execute; under a retry policy the
\* listeners of the earlier attempts stay registered as long.
ListenerPcs == {"executing", "zenOk", "zenErr", "retryCatch", "backoff"}

\* No graph in the store, no reconstructed instance.
NoMirror == [status |-> "none", zens |-> << >>, zstatus |-> << >>, deps |-> << >>]
NoInstance == [pc |-> "none", status |-> "none", zens |-> << >>,
               result |-> "none", error |-> << >>]
NotRestored == mirror = NoMirror /\ restored = NoInstance

\* The closure has passed the point where the function of its zen resolved.
ResolvedPcs == {"zenOk", "taoOk", "gateAfter", "hungAfter", "closeOk", "done"}

\* The state after the graph is built with the dependency edges g and
\* the zen configurations c.
Built(g, c) ==
  /\ deps = g
  /\ config = c
  /\ status = "pending"
  /\ hasRun = FALSE
  /\ retries = 0
  /\ aborted = {}
  /\ pauseGate = FALSE
  /\ runningZens = {}
  /\ zstatus = [z \in DOMAIN g |-> "pending"]
  /\ zvalue = [z \in DOMAIN g |-> Undefined]
  /\ zerror = [z \in DOMAIN g |-> NoError]
  /\ dpc = [d \in Drivers |-> "idle"]
  /\ dlayer = [d \in Drivers |-> 0]
  /\ dfail = [d \in Drivers |-> NoError]
  /\ results = [d \in Drivers |-> [z \in DOMAIN g |-> Undefined]]
  /\ xpc = [d \in Drivers |-> [z \in DOMAIN g |-> "none"]]
  /\ xerr = [d \in Drivers |-> [z \in DOMAIN g |-> NoError]]
  /\ xsig = [d \in Drivers |-> [z \in DOMAIN g |-> NoSignal]]
  /\ attempt = [d \in Drivers |-> [z \in DOMAIN g |-> 0]]
  /\ timer = [d \in Drivers |-> [z \in DOMAIN g |-> "off"]]
  /\ late = [d \in Drivers |-> [z \in DOMAIN g |-> FALSE]]
  /\ ncalls = [z \in DOMAIN g |-> 0]
  /\ retryLog = [z \in DOMAIN g |-> << >>]
  /\ cleared = FALSE
  /\ onCancel = [d \in Drivers |-> [z \in DOMAIN g |-> 0]]
  /\ resolvedBefore = [d \in Drivers |-> [z \in DOMAIN g |-> {}]]
  /\ emits = << >>
  /\ invoked = [d \in Drivers |-> {}]
  /\ runResult = NoError
  /\ retryResult = NoError
  /\ pauseReturn = FALSE
  /\ refused = FALSE
  /\ otherDone = 0
  /\ cancelCalls = 0
  /\ pauseCalls = 0
  /\ cancelSnap = {}
  /\ retrySnap = {}

\* The record of a graph in Tao.store, as far as the static methods read
\* it: the fields status and paused of getRuntimeState().
NoRecord == [status |-> "none", paused |-> FALSE]

getRuntimeState(s) == [status |-> s, paused |-> s = "paused"]

\* Tao.register() stores the record of the graph.
register == IF id THEN getRuntimeState(status) ELSE NoRecord

\* The listener register() adds: at every event it stores the runtime
\* state anew.  A segment that changes the graph status emits after the
\* change, so the record holds the status at the end of the segment;
\* updateStatus then stores the same status.
StoreListener(events, newStatus) ==
  IF id /\ events # << >> THEN getRuntimeState(newStatus) ELSE store

\* Graphs whose zens carry no retry policy and no timeout.
Init ==
  /\ \E g \in Graphs : Built(g, [z \in DOMAIN g |-> NoConfig])
  /\ retryFailedZensOnly \in BOOLEAN
  /\ id \in BOOLEAN
  /\ runningTaos \in {0, maxConcurrentTaos}
  /\ otherTaos = runningTaos
  /\ store = register
  /\ NotRestored

\* The graph whose zen A has the configuration c and whose other zens
\* have none.
InitPolicy ==
  /\ \E g \in PolicyGraphs, c \in ZenConfigs :
        Built(g, [z \in DOMAIN g |-> IF z = "A" THEN c ELSE NoConfig])
  /\ retryFailedZensOnly = FALSE
  /\ id = FALSE
  /\ runningTaos = 0
  /\ otherTaos = 0
  /\ store = register
  /\ NotRestored

(* ------------------- retry policy and timeout -------------------------- *)
Max(a, b) == IF a > b THEN a ELSE b
Min(a, b) == IF a < b THEN a ELSE b

\* JavaScript's v || dflt on a number: 0 is falsy.
Or(v, dflt) == IF v = 0 THEN dflt ELSE v

RECURSIVE Pow(_, _)
Pow(base, e) == IF e = 0 THEN 1 ELSE base * Pow(base, e - 1)

\* The retryConfig that executeWithRetry derives from config.retry.
retryConfig(c) ==
  [maxAttempts   |-> Max(1, Or(c[1], DefaultMaxAttempts)),
   initialDelay  |-> Max(0, Or(c[2], DefaultInitialDelay)),
   backoffFactor |-> Max(1, Or(c[3], DefaultBackoffFactor)),
   maxDelay      |-> Max(0, Or(c[4], DefaultMaxDelay))]

\* The delay executeWithRetry waits after the failed attempt `att`.
RetryDelay(rc, att) ==
  Min(rc.initialDelay * Pow(rc.backoffFactor, att - 1), rc.maxDelay)

\* The branch Zen._execute takes: executeWithRetry when config.retry is
\* set, else executeWithTimeout when config.timeout is positive, else
\* executeCore.
HasRetry(z) == config[z].retry # NoRetry
HasTimeout(z) == ~HasRetry(z) /\ config[z].timeout > 0

\* The getter Zen.result: the value, readable only in status completed.
result(z) == IF zstatus[z] = "completed" THEN zvalue[z] ELSE Undefined

(* ---------------------- Tao.getExecutionOrder -------------------------- *)
\* Variant for C27: the filter does not look at the dependencies.
CurrentLayer_AllUnvisited(visited) ==
  SelectSeq(ZenOrder, LAMBDA z : z \notin visited)

\* Variant for C28: a layer holds only the first zen that is ready.
CurrentLayer_FirstReady(visited) ==
  LET ready == SelectSeq(ZenOrder,
                         LAMBDA z : z \notin visited /\ deps[z] \subseteq visited)
  IN IF Len(ready) = 0 THEN ready ELSE <<ready[1]>>

\* One pass of the while loop: the zens not yet visited whose dependencies
\* are all visited, in the order of the zens map.
CurrentLayer(visited) ==
  SelectSeq(ZenOrder, LAMBDA z : z \notin visited /\ deps[z] \subseteq visited)

SeqRange(s) == {s[i] : i \in 1..Len(s)}

RECURSIVE Layers(_)
Layers(visited) ==
  IF Cardinality(visited) >= Cardinality(Zens) THEN << >>
  ELSE LET layer == CurrentLayer(visited) IN
       IF Len(layer) = 0 THEN <<CircularDependency>>
       ELSE <<layer>> \o Layers(visited \cup SeqRange(layer))

\* The layers, ending in the CircularDependency marker where the code throws.
getExecutionOrder == Layers({})

\* Variant for C4: the loop never detects the empty layer.
IsCircular_Never(order) == FALSE

IsCircular(order) == Len(order) > 0 /\ order[Len(order)] = CircularDependency

(* ----------------- reconstruction from the store ------------------------ *)
\* What register() and its listener mirror for a graph with the edges g:
\* taos[taoId].status, taos[taoId].zens (in the order of the zens map) with
\* their statuses, and states[taoId][zenId].dependencies.
Mirrored(g, st, zst) ==
  [status |-> st,
   zens |-> SelectSeq(<<"A", "B", "C", "D">>, LAMBDA z : z \in DOMAIN g),
   zstatus |-> zst,
   deps |-> g]

\* gen.id() for the zens of S: ids never generated before, all different.
FreshIds(S) == {f \in [S -> NewIds] : \A x, y \in S : x # y => f[x] # f[y]}

\* restoreInstance: tao.zen(name) creates every zen under a new id f[k]
\* and the map is re-keyed to the stored id k; a failed or cancelled zen is
\* reset; then zen.after(depZen) adds depZen.getId() for every stored
\* dependency that is a key of the map.
restoreInstance(f) ==
  [pc |-> "restored",
   status |-> mirror.status,
   zens |-> [k \in DOMAIN mirror.deps |->
               [id |-> f[k],
                status |-> IF mirror.zstatus[k] \in {"failed", "cancelled"}
                           THEN "pending" ELSE mirror.zstatus[k],
                deps |-> {f[y] : y \in mirror.deps[k] \cap DOMAIN mirror.deps}]],
   result |-> "none",
   error |-> NoError]

\* getExecutionOrder on the reconstructed graph: it filters the values of
\* the zens map and collects zen.getId().
RestoredLayer(inst, visited) ==
  LET ready == SelectSeq(mirror.zens, LAMBDA k :
                 /\ inst.zens[k].id \notin visited
                 /\ inst.zens[k].deps \subseteq visited)
  IN [i \in 1..Len(ready) |-> inst.zens[ready[i]].id]

RECURSIVE RestoredLayers(_, _)
RestoredLayers(inst, visited) ==
  IF Cardinality(visited) >= Cardinality(DOMAIN inst.zens) THEN << >>
  ELSE LET layer == RestoredLayer(inst, visited) IN
       IF Len(layer) = 0 THEN <<CircularDependency>>
       ELSE <<layer>> \o RestoredLayers(inst, visited \cup SeqRange(layer))

RestoredOrder(inst) == RestoredLayers(inst, {})

(* -------------------- error classification ----------------------------- *)
\* Tao.handleZenError: isTaoCancelled compares the message with ===.
isTaoCancelled(error) == error = TaoCancelled \/ error = TaoCancelledPaused

\* Zen.handleZenError: isTaskCancelled tests the message with includes.
isTaskCancelled(error) ==
  \/ Includes(error, <<"Task", "cancelled">>)
  \/ Includes(error, <<"cancelled", "before", "execution">>)
  \/ Includes(error, <<"cancelled", "during", "retry">>)

(* ------------- synchronous segments on a working copy ------------------ *)
\* The part of the state a synchronous segment of the batch loop rewrites,
\* for the call d: zs/ze the zens' status and error, xp/xe/xs the closures
\* of d, rz runningZens, em the events emitted, rs the results map of d.
Work(d) == [zs |-> zstatus, ze |-> zerror, xp |-> xpc[d], xe |-> xerr[d],
            xs |-> xsig[d], rz |-> runningZens, em |-> << >>,
            rs |-> results[d]]

\* Variant for C24: the dependencies are not checked.
waitForDependencies_Unchecked(zs, z) == ""

\* Zen.waitForDependencies: the first dependency (in the order of the
\* dependencies set) that is not completed, or "" when all are.
waitForDependencies(zs, z) ==
  LET unmet == SelectSeq(ZenOrder, LAMBDA y : y \in deps[z] /\ zs[y] # "completed")
  IN IF Len(unmet) = 0 THEN "" ELSE unmet[1]

\* Zen._execute(signal) up to its first await, called with the signal of
\* controller c.  The two guards before the try reject without going
\* through Zen.handleZenError; a failed dependency check goes through it.
ExecuteSync(w, z, c) ==
  IF w.zs[z] = "running" THEN
    [w EXCEPT !.xp[z] = "taoErr", !.xe[z] = AlreadyRunning(z), !.xs[z] = NoSignal]
  ELSE IF c \in aborted THEN
    [w EXCEPT !.zs[z] = "cancelled", !.xp[z] = "taoErr",
              !.xe[z] = TaskCancelledBefore, !.xs[z] = NoSignal]
  ELSE
    LET w1 == [w EXCEPT !.zs[z] = "running", !.ze[z] = NoError]
        bad == waitForDependencies(w1.zs, z)
    IN IF bad = "" THEN [w1 EXCEPT !.xp[z] = "depsWait", !.xs[z] = c]
       ELSE LET e == DepNotCompleted(bad) IN
            [w1 EXCEPT !.zs[z] = IF isTaskCancelled(e) THEN "cancelled" ELSE "failed",
                       !.ze[z] = e,
                       !.em = Append(@, ZenFailEvent),
                       !.xp[z] = "taoErr", !.xe[z] = e, !.xs[z] = NoSignal]

\* Tao.executeZen(zen) up to its first await.
ExecuteZenSync(w, z, c) ==
  IF c \in aborted THEN
    [w EXCEPT !.xp[z] = "closeErr", !.xe[z] = TaoCancelled]
  ELSE
    LET w1 == [w EXCEPT !.em = Append(@, ZenStartEvent)] IN
    IF status = "paused" THEN
      [w1 EXCEPT !.em = Append(@, ZenPauseEvent), !.xp[z] = "gateBefore",
                 !.xs[z] = c]
    ELSE ExecuteSync(w1, z, c)

\* The closure batch.map runs for one zen, up to its first await: run()
\* always executes the zen, retry() skips a completed zen when
\* retryFailedZensOnly is set and copies its cached result.
StartZen(w, d, z) ==
  IF d > 0 /\ retryFailedZensOnly /\ w.zs[z] = "completed" THEN
    [w EXCEPT !.rs[z] = zvalue[z], !.xp[z] = "done"]
  ELSE ExecuteZenSync([w EXCEPT !.rz = @ \cup {z}], z, retries)

RECURSIVE StartBatch(_, _, _)
StartBatch(w, d, batch) ==
  IF Len(batch) = 0 THEN w
  ELSE StartBatch(StartZen(w, d, Head(batch)), d, Tail(batch))

\* Write a working copy back.
Commit(w, d) ==
  /\ zstatus' = w.zs
  /\ zerror' = w.ze
  /\ xpc' = [xpc EXCEPT ![d] = w.xp]
  /\ xerr' = [xerr EXCEPT ![d] = w.xe]
  /\ xsig' = [xsig EXCEPT ![d] = w.xs]
  /\ runningZens' = w.rz
  /\ results' = [results EXCEPT ![d] = w.rs]
  /\ emits' = w.em

(* ------------------------- Tao.updateStatus ---------------------------- *)
\* The events updateStatus emits: one of type tao:<newStatus>, and only
\* when the status changes.
updateStatus(newStatus) ==
  IF status # newStatus THEN <<StatusEvent(newStatus)>> ELSE << >>

(* ------------------------ Tao.handleZenError --------------------------- *)
\* The synchronous part of handleZenError(error, zenId): the zen named by
\* zenId (none for "") takes the error, and unless the error is a graph
\* cancellation every other zen of runningZens is marked failed.
\* zenId = "" is the call from the catch of run()/retry().  A zen that is
\* not in the zens map (dispose() has emptied it) is left alone.
\* Zen.executeOnCancel() on the zens of S, counted for the call d.  Every
\* zen is built with an onCancel callback.
executeOnCancel(S, d) ==
  [onCancel EXCEPT ![d] =
     [z \in Zens |-> IF z \in S THEN Min(MaxOnCancel, @[z] + 1) ELSE @[z]]]

\* The call d has started and has not settled.
InProgress(d) == dpc[d] \notin {"idle", "resolved", "rejected"}

\* Tao.cancel(): executeOnCancel() on every zen of the zens map.
cancelOnCancel ==
  IF InProgress(retries)
  THEN executeOnCancel(IF cleared THEN {} ELSE Zens, retries)
  ELSE onCancel

\* Tao.handleZenError: the other members of runningZens, which it stops
\* unless the error is the cancellation of the graph.
OtherRunning(error, zenId) ==
  IF cleared \/ isTaoCancelled(error) THEN {} ELSE runningZens \ {zenId}

handleZenErrorStatus(error, zenId) ==
  [z \in Zens |->
     IF cleared THEN zstatus[z]
     ELSE IF z = zenId THEN (IF isTaoCancelled(error) THEN "cancelled" ELSE "failed")
     ELSE IF ~isTaoCancelled(error) /\ z \in runningZens THEN "failed"
     ELSE zstatus[z]]

handleZenErrorError(error, zenId) ==
  [z \in Zens |->
     IF cleared THEN zerror[z]
     ELSE IF z = zenId THEN error
     ELSE IF ~isTaoCancelled(error) /\ z \in runningZens THEN FailedByOther
     ELSE zerror[z]]

(* ============================ API calls ================================ *)
\* The calls that have taken effect so far.
Calls == pauseCalls + cancelCalls + retries

Admitted == <<"admitted">>

\* Variant for C5: run() without the hasRun check.
Run_Again ==
  IF runningTaos >= maxConcurrentTaos THEN
    /\ runResult' = TooManyTaos
    /\ refused' = TRUE
    /\ emits' = << >>
    /\ UNCHANGED <<deps, retryFailedZensOnly, id, status, hasRun, runningTaos,
                   retries, aborted, pauseGate, runningZens, zstatus, zvalue, zerror,
                   dpc, dlayer, dfail, results, xpc, xerr, xsig, invoked,
                   cancelCalls, pauseCalls, cancelSnap, retrySnap, retryResult,
                   otherDone, otherTaos, cleared, pauseReturn, config, attempt,
                   timer, late, ncalls, retryLog, onCancel, resolvedBefore, mirror,
                   restored>>
    /\ store' = StoreListener(emits', status')
  ELSE
    /\ runResult' = Admitted
    /\ runningTaos' = runningTaos + 1
    /\ hasRun' = TRUE
    /\ status' = "running"
    /\ emits' = updateStatus("running")
    /\ dpc' = [dpc EXCEPT ![0] = "start"]
    /\ UNCHANGED <<deps, retryFailedZensOnly, id, retries, aborted, pauseGate,
                   runningZens, zstatus, zvalue, zerror, dlayer, dfail, results, xpc,
                   xerr, xsig, invoked, cancelCalls, pauseCalls, cancelSnap,
                   retrySnap, retryResult, refused, otherDone, otherTaos, cleared,
                   pauseReturn, config, attempt, timer, late, ncalls, retryLog,
                   onCancel, resolvedBefore, mirror, restored>>
    /\ store' = StoreListener(emits', status')

\* Variant for C20: run() sets hasRun before it checks the running limit.
Run_FlagFirst ==
  IF hasRun THEN
    /\ runResult' = AlreadyRun
    /\ emits' = << >>
    /\ UNCHANGED <<deps, retryFailedZensOnly, id, status, hasRun, runningTaos,
                   retries, aborted, pauseGate, runningZens, zstatus, zvalue, zerror,
                   dpc, dlayer, dfail, results, xpc, xerr, xsig, invoked,
                   cancelCalls, pauseCalls, cancelSnap, retrySnap, retryResult,
                   refused, otherDone, otherTaos, cleared, pauseReturn, config,
                   attempt, timer, late, ncalls, retryLog, onCancel, resolvedBefore,
                   mirror, restored>>
    /\ store' = StoreListener(emits', status')
  ELSE IF runningTaos >= maxConcurrentTaos THEN
    /\ runResult' = TooManyTaos
    /\ refused' = TRUE
    /\ hasRun' = TRUE
    /\ emits' = << >>
    /\ UNCHANGED <<deps, retryFailedZensOnly, id, status, runningTaos, retries,
                   aborted, pauseGate, runningZens, zstatus, zvalue, zerror, dpc,
                   dlayer, dfail, results, xpc, xerr, xsig, invoked, cancelCalls,
                   pauseCalls, cancelSnap, retrySnap, retryResult, otherDone,
                   otherTaos, cleared, pauseReturn, config, attempt, timer, late,
                   ncalls, retryLog, onCancel, resolvedBefore, mirror, restored>>
    /\ store' = StoreListener(emits', status')
  ELSE
    /\ runResult' = Admitted
    /\ runningTaos' = runningTaos + 1
    /\ hasRun' = TRUE
    /\ status' = "running"
    /\ emits' = updateStatus("running")
    /\ dpc' = [dpc EXCEPT ![0] = "start"]
    /\ UNCHANGED <<deps, retryFailedZensOnly, id, retries, aborted, pauseGate,
                   runningZens, zstatus, zvalue, zerror, dlayer, dfail, results, xpc,
                   xerr, xsig, invoked, cancelCalls, pauseCalls, cancelSnap,
                   retrySnap, retryResult, refused, otherDone, otherTaos, cleared,
                   pauseReturn, config, attempt, timer, late, ncalls, retryLog,
                   onCancel, resolvedBefore, mirror, restored>>
    /\ store' = StoreListener(emits', status')

\* Tao.run(), up to the await of updateStatus("running").
Run ==
  IF hasRun THEN
    /\ runResult' = AlreadyRun
    /\ emits' = << >>
    /\ UNCHANGED <<deps, retryFailedZensOnly, id, status, hasRun, runningTaos,
                   retries, aborted, pauseGate, runningZens, zstatus, zvalue, zerror,
                   dpc, dlayer, dfail, results, xpc, xerr, xsig, invoked,
                   cancelCalls, pauseCalls, cancelSnap, retrySnap, retryResult,
                   refused, otherDone, otherTaos, cleared, pauseReturn, config,
                   attempt, timer, late, ncalls, retryLog, onCancel, resolvedBefore,
                   mirror, restored>>
    /\ store' = StoreListener(emits', status')
  ELSE IF runningTaos >= maxConcurrentTaos THEN
    /\ runResult' = TooManyTaos
    /\ refused' = TRUE
    /\ emits' = << >>
    /\ UNCHANGED <<deps, retryFailedZensOnly, id, status, hasRun, runningTaos,
                   retries, aborted, pauseGate, runningZens, zstatus, zvalue, zerror,
                   dpc, dlayer, dfail, results, xpc, xerr, xsig, invoked,
                   cancelCalls, pauseCalls, cancelSnap, retrySnap, retryResult,
                   otherDone, otherTaos, cleared, pauseReturn, config, attempt,
                   timer, late, ncalls, retryLog, onCancel, resolvedBefore, mirror,
                   restored>>
    /\ store' = StoreListener(emits', status')
  ELSE
    /\ runResult' = Admitted
    /\ runningTaos' = runningTaos + 1
    /\ hasRun' = TRUE
    /\ status' = "running"
    /\ emits' = updateStatus("running")
    /\ dpc' = [dpc EXCEPT ![0] = "start"]
    /\ UNCHANGED <<deps, retryFailedZensOnly, id, retries, aborted, pauseGate,
                   runningZens, zstatus, zvalue, zerror, dlayer, dfail, results, xpc,
                   xerr, xsig, invoked, cancelCalls, pauseCalls, cancelSnap,
                   retrySnap, retryResult, refused, otherDone, otherTaos, cleared,
                   pauseReturn, config, attempt, timer, late, ncalls, retryLog,
                   onCancel, resolvedBefore, mirror, restored>>
    /\ store' = StoreListener(emits', status')

\* The finally of the run() of another graph releases the static counter.
OtherTaoDone ==
  /\ otherDone < MaxOtherDone
  /\ otherTaos > 0
  /\ runningTaos' = Max(0, runningTaos - 1)
  /\ otherTaos' = otherTaos - 1
  /\ otherDone' = otherDone + 1
  /\ emits' = << >>
  /\ UNCHANGED <<deps, retryFailedZensOnly, id, status, hasRun, retries, aborted,
                 pauseGate, runningZens, zstatus, zvalue, zerror, dpc, dlayer, dfail,
                 results, xpc, xerr, xsig, invoked, runResult, cancelCalls,
                 pauseCalls, cancelSnap, retrySnap, retryResult, refused, cleared,
                 pauseReturn, config, attempt, timer, late, ncalls, retryLog,
                 onCancel, resolvedBefore, mirror, restored>>
  /\ store' = StoreListener(emits', status')

\* The static Tao.pause(taoId): returns false unless the record of the
\* store is running and not paused; otherwise sets the field paused of the
\* record and returns true.  The instance is not looked up.
StaticPause ==
  IF store = NoRecord \/ store.status # "running" \/ store.paused THEN
    /\ pauseReturn' = FALSE
    /\ UNCHANGED store
    /\ emits' = << >>
    /\ UNCHANGED <<deps, retryFailedZensOnly, id, status, hasRun, runningTaos,
                   retries, aborted, pauseGate, runningZens, zstatus, zvalue, zerror,
                   dpc, dlayer, dfail, results, xpc, xerr, xsig, invoked, runResult,
                   cancelCalls, pauseCalls, cancelSnap, retrySnap, retryResult,
                   refused, otherDone, otherTaos, cleared, config, attempt, timer,
                   late, ncalls, retryLog, onCancel, resolvedBefore, mirror, restored>>
  ELSE
    /\ pauseReturn' = TRUE
    /\ store' = [store EXCEPT !.paused = TRUE]
    /\ emits' = << >>
    /\ UNCHANGED <<deps, retryFailedZensOnly, id, status, hasRun, runningTaos,
                   retries, aborted, pauseGate, runningZens, zstatus, zvalue, zerror,
                   dpc, dlayer, dfail, results, xpc, xerr, xsig, invoked, runResult,
                   cancelCalls, pauseCalls, cancelSnap, retrySnap, retryResult,
                   refused, otherDone, otherTaos, cleared, config, attempt, timer,
                   late, ncalls, retryLog, onCancel, resolvedBefore, mirror, restored>>

\* Variant for C11: pause() without the check of the status.
Pause_NoGuard ==
  /\ Calls < MaxCalls
  /\ status' = "paused"
  /\ pauseGate' = TRUE
  /\ emits' = <<TaoPauseEvent>>
  /\ pauseCalls' = pauseCalls + 1
  /\ UNCHANGED <<deps, retryFailedZensOnly, id, hasRun, runningTaos, retries,
                 aborted, runningZens, zstatus, zvalue, zerror, dpc, dlayer, dfail,
                 results, xpc, xerr, xsig, invoked, runResult, cancelCalls,
                 cancelSnap, retrySnap, retryResult, refused, otherDone, otherTaos,
                 cleared, pauseReturn, config, attempt, timer, late, ncalls,
                 retryLog, onCancel, resolvedBefore, mirror, restored>>
  /\ store' = StoreListener(emits', status')

\* Tao.pause(): a no-op unless the status is running.
Pause ==
  IF status # "running" THEN UNCHANGED vars
  ELSE
    /\ Calls < MaxCalls
    /\ status' = "paused"
    /\ pauseGate' = TRUE
    /\ emits' = <<TaoPauseEvent>>
    /\ pauseCalls' = pauseCalls + 1
    /\ UNCHANGED <<deps, retryFailedZensOnly, id, hasRun, runningTaos, retries,
                   aborted, runningZens, zstatus, zvalue, zerror, dpc, dlayer, dfail,
                   results, xpc, xerr, xsig, invoked, runResult, cancelCalls,
                   cancelSnap, retrySnap, retryResult, refused, otherDone, otherTaos,
                   cleared, pauseReturn, config, attempt, timer, late, ncalls,
                   retryLog, onCancel, resolvedBefore, mirror, restored>>
    /\ store' = StoreListener(emits', status')

\* Variant for C10: pauseResolve wakes only the closures waiting before
\* their zen.
Released_BeforeOnly(pc) == IF pc = "gateBefore" THEN "released" ELSE pc

\* The closures waiting on the pause promise: pauseResolve continues them.
\* A closure waiting before its zen goes on to Zen._execute, one waiting
\* after it returns the result.
Released(pc) ==
  IF pc = "gateBefore" THEN "released"
  ELSE IF pc = "gateAfter" THEN "closeOk"
  ELSE pc

\* Tao.resume(): a no-op unless the status is paused.
Resume ==
  IF status # "paused" THEN UNCHANGED vars
  ELSE
    /\ status' = "running"
    /\ xpc' = IF pauseGate
              THEN [d \in Drivers |-> [z \in Zens |-> Released(xpc[d][z])]]
              ELSE xpc
    /\ pauseGate' = FALSE
    /\ emits' = <<TaoResumeEvent>>
    /\ UNCHANGED <<deps, retryFailedZensOnly, id, hasRun, runningTaos, retries,
                   aborted, runningZens, zstatus, zvalue, zerror, dpc, dlayer, dfail,
                   results, xerr, xsig, invoked, runResult, cancelCalls, pauseCalls,
                   cancelSnap, retrySnap, retryResult, refused, otherDone, otherTaos,
                   cleared, pauseReturn, config, attempt, timer, late, ncalls,
                   retryLog, onCancel, resolvedBefore, mirror, restored>>
    /\ store' = StoreListener(emits', status')

\* A pause promise that is dropped without being resolved (cancel, retry)
\* never continues the closures awaiting it.
Dropped(pc) ==
  IF pc = "gateBefore" THEN "hungBefore"
  ELSE IF pc = "gateAfter" THEN "hungAfter"
  ELSE pc

\* AbortController.abort() on controller c runs the abort listeners: the
\* abortHandler of executeCore marks the zen cancelled and rejects the
\* promise of the function (a no-op once that promise is settled); the
\* abortHandler of the pause race in executeZen rejects the race.
AbortPc(d, z, c) ==
  IF xsig[d][z] # c THEN Dropped(xpc[d][z])
  ELSE IF xpc[d][z] = "executing" THEN "zenErr"
  ELSE IF xpc[d][z] = "backoff" THEN "zenErr"
  ELSE IF xpc[d][z] = "gateBefore" THEN "closeErr"
  ELSE Dropped(xpc[d][z])

AbortErr(d, z, c) ==
  IF xsig[d][z] # c THEN xerr[d][z]
  ELSE IF xpc[d][z] = "executing" THEN TaskCancelled
  ELSE IF xpc[d][z] = "backoff" THEN TaskCancelledWait
  ELSE IF xpc[d][z] = "gateBefore" THEN TaoCancelledPaused
  ELSE xerr[d][z]

\* The abortHandler of executeWithTimeout clears the timer; the one of an
\* executeCore left behind by a timeout rejects the promise it awaits.
AbortTimer(c) ==
  [d \in Drivers |-> [z \in Zens |->
     IF xsig[d][z] = c /\ xpc[d][z] = "executing" THEN "off" ELSE timer[d][z]]]

AbortLate(c) ==
  [d \in Drivers |-> [z \in Zens |->
     IF xsig[d][z] = c /\ xpc[d][z] \in ListenerPcs THEN FALSE ELSE late[d][z]]]

AbortStatus(c) ==
  [z \in Zens |->
     IF \E d \in Drivers : xsig[d][z] = c /\ xpc[d][z] \in ListenerPcs
     THEN "cancelled" ELSE zstatus[z]]

\* Variant for C7: cancel() without the check of the status.
Cancel_NoGuard ==
  /\ Calls < MaxCalls
  /\ cancelCalls' = cancelCalls + 1
  /\ status' = "cancelled"
  /\ pauseGate' = FALSE
  /\ onCancel' = cancelOnCancel
  /\ runningZens' = {}
  /\ emits' = <<TaoFailEvent>>
  /\ cancelSnap' = {z \in Zens : \E d \in Drivers : xpc[d][z] = "executing"}
  /\ aborted' = aborted \cup {retries}
  /\ IF retries \in aborted
     THEN /\ xpc' = [d \in Drivers |-> [z \in Zens |-> Dropped(xpc[d][z])]]
          /\ UNCHANGED <<xerr, zstatus, timer, late>>
     ELSE /\ xpc' = [d \in Drivers |-> [z \in Zens |-> AbortPc(d, z, retries)]]
          /\ xerr' = [d \in Drivers |-> [z \in Zens |-> AbortErr(d, z, retries)]]
          /\ zstatus' = AbortStatus(retries)
          /\ timer' = AbortTimer(retries)
          /\ late' = AbortLate(retries)
  /\ UNCHANGED <<deps, retryFailedZensOnly, id, hasRun, runningTaos, retries, zvalue,
                 zerror, dpc, dlayer, dfail, results, xsig, invoked, runResult,
                 pauseCalls, retrySnap, retryResult, refused, otherDone, otherTaos,
                 cleared, pauseReturn, config, attempt, ncalls, retryLog,
                 resolvedBefore, mirror, restored>>
  /\ store' = StoreListener(emits', status')

\* Tao.cancel(): a no-op when the status is cancelled.
Cancel ==
  IF status = "cancelled" THEN UNCHANGED vars
  ELSE
    /\ Calls < MaxCalls
    /\ cancelCalls' = cancelCalls + 1
    /\ status' = "cancelled"
    /\ pauseGate' = FALSE
    /\ onCancel' = cancelOnCancel
    /\ runningZens' = {}
    /\ emits' = <<TaoFailEvent>>   \* updateStatus("cancelled") finds the
                                   \* status already cancelled: no event
    /\ cancelSnap' = {z \in Zens : \E d \in Drivers : xpc[d][z] = "executing"}
    /\ aborted' = aborted \cup {retries}
    /\ IF retries \in aborted
       THEN /\ xpc' = [d \in Drivers |-> [z \in Zens |-> Dropped(xpc[d][z])]]
            /\ UNCHANGED <<xerr, zstatus, timer, late>>
       ELSE /\ xpc' = [d \in Drivers |-> [z \in Zens |-> AbortPc(d, z, retries)]]
            /\ xerr' = [d \in Drivers |-> [z \in Zens |-> AbortErr(d, z, retries)]]
            /\ zstatus' = AbortStatus(retries)
            /\ timer' = AbortTimer(retries)
            /\ late' = AbortLate(retries)
    /\ UNCHANGED <<deps, retryFailedZensOnly, id, hasRun, runningTaos, retries,
                   zvalue, zerror, dpc, dlayer, dfail, results, xsig, invoked,
                   runResult, pauseCalls, retrySnap, retryResult, refused, otherDone,
                   otherTaos, cleared, pauseReturn, config, attempt, ncalls,
                   retryLog, resolvedBefore, mirror, restored>>
    /\ store' = StoreListener(emits', status')

\* Tao.remove(): throws unless the graph is registered; dispose() aborts
\* the controller, empties the zens map and runningZens, drops the pause
\* promise and releases the running counter when the status is running;
\* then the record of the store and the id are dropped.
Remove ==
  IF ~id THEN UNCHANGED vars
  ELSE
    /\ aborted' = aborted \cup {retries}
    /\ IF retries \in aborted
       THEN /\ xpc' = [d \in Drivers |-> [z \in Zens |-> Dropped(xpc[d][z])]]
            /\ UNCHANGED <<xerr, zstatus, timer, late>>
       ELSE /\ xpc' = [d \in Drivers |-> [z \in Zens |-> AbortPc(d, z, retries)]]
            /\ xerr' = [d \in Drivers |-> [z \in Zens |-> AbortErr(d, z, retries)]]
            /\ zstatus' = AbortStatus(retries)
            /\ timer' = AbortTimer(retries)
            /\ late' = AbortLate(retries)
    /\ cleared' = TRUE
    /\ runningZens' = {}
    /\ pauseGate' = FALSE
    /\ runningTaos' = IF status = "running" THEN Max(0, runningTaos - 1)
                      ELSE runningTaos
    /\ id' = FALSE
    /\ store' = NoRecord
    /\ emits' = << >>
    /\ UNCHANGED <<deps, retryFailedZensOnly, status, hasRun, retries, zvalue,
                   zerror, dpc, dlayer, dfail, results, xsig, invoked, runResult,
                   cancelCalls, pauseCalls, cancelSnap, retrySnap, retryResult,
                   refused, otherDone, otherTaos, pauseReturn, config, attempt,
                   ncalls, retryLog, onCancel, resolvedBefore, mirror, restored>>

\* Variant for C36: retry() resets the failed and cancelled zens only,
\* whatever the configuration.
IsReset_FailedOnly(z) == zstatus[z] \in {"failed", "cancelled"}

\* Zen.reset(): status, value and error are cleared.  retry() resets every
\* zen, or only the failed and cancelled ones under retryFailedZensOnly.
IsReset(z) == ~retryFailedZensOnly \/ zstatus[z] \in {"failed", "cancelled"}

\* Variant for C19: retry() checks the registration after the resets.
Retry_LateIdCheck ==
  IF status \notin {"failed", "cancelled"} THEN
    /\ retryResult' = OnlyFailedRetry
    /\ emits' = << >>
    /\ UNCHANGED <<deps, retryFailedZensOnly, id, status, hasRun, runningTaos,
                   retries, aborted, pauseGate, runningZens, zstatus, zvalue, zerror,
                   dpc, dlayer, dfail, results, xpc, xerr, xsig, invoked, runResult,
                   cancelCalls, pauseCalls, cancelSnap, retrySnap, refused,
                   otherDone, otherTaos, cleared, pauseReturn, config, attempt,
                   timer, late, ncalls, retryLog, onCancel, resolvedBefore, mirror,
                   restored>>
    /\ store' = StoreListener(emits', status')
  ELSE IF ~id THEN
    /\ retryResult' = NotRegistered
    /\ zstatus' = [z \in Zens |-> IF IsReset(z) THEN "pending" ELSE zstatus[z]]
    /\ zvalue' = [z \in Zens |-> IF IsReset(z) THEN Undefined ELSE zvalue[z]]
    /\ zerror' = [z \in Zens |-> IF IsReset(z) THEN NoError ELSE zerror[z]]
    /\ emits' = << >>
    /\ UNCHANGED <<deps, retryFailedZensOnly, id, status, hasRun, runningTaos,
                   retries, aborted, pauseGate, runningZens, dpc, dlayer, dfail,
                   results, xpc, xerr, xsig, invoked, runResult, cancelCalls,
                   pauseCalls, cancelSnap, retrySnap, refused, otherDone, otherTaos,
                   cleared, pauseReturn, config, attempt, timer, late, ncalls,
                   retryLog, onCancel, resolvedBefore, mirror, restored>>
    /\ store' = StoreListener(emits', status')
  ELSE
    /\ retries < MaxRetries
    /\ Calls < MaxCalls
    /\ retryResult' = Admitted
    /\ retries' = retries + 1
    /\ zstatus' = [z \in Zens |-> IF IsReset(z) THEN "pending" ELSE zstatus[z]]
    /\ zvalue' = [z \in Zens |-> IF IsReset(z) THEN Undefined ELSE zvalue[z]]
    /\ zerror' = [z \in Zens |-> IF IsReset(z) THEN NoError ELSE zerror[z]]
    /\ runningZens' = {}
    /\ pauseGate' = FALSE
    /\ xpc' = [d \in Drivers |-> [z \in Zens |-> Dropped(xpc[d][z])]]
    /\ status' = "running"
    /\ emits' = <<TaoRetryEvent>> \o updateStatus("running")
    /\ dpc' = [dpc EXCEPT ![retries + 1] = "start"]
    /\ cancelSnap' = {}
    /\ retrySnap' = {z \in Zens : zstatus[z] = "completed"}
    /\ UNCHANGED <<deps, retryFailedZensOnly, id, hasRun, runningTaos, aborted,
                   dlayer, dfail, results, xerr, xsig, invoked, runResult,
                   cancelCalls, pauseCalls, refused, otherDone, otherTaos, cleared,
                   pauseReturn, config, attempt, timer, late, ncalls, retryLog,
                   onCancel, resolvedBefore, mirror, restored>>
    /\ store' = StoreListener(emits', status')

\* Tao.retry(), up to the await of updateStatus("running"): rejects unless
\* the status is failed or cancelled and the graph is registered.
Retry ==
  IF status \notin {"failed", "cancelled"} THEN
    /\ retryResult' = OnlyFailedRetry
    /\ emits' = << >>
    /\ UNCHANGED <<deps, retryFailedZensOnly, id, status, hasRun, runningTaos,
                   retries, aborted, pauseGate, runningZens, zstatus, zvalue, zerror,
                   dpc, dlayer, dfail, results, xpc, xerr, xsig, invoked, runResult,
                   cancelCalls, pauseCalls, cancelSnap, retrySnap, refused,
                   otherDone, otherTaos, cleared, pauseReturn, config, attempt,
                   timer, late, ncalls, retryLog, onCancel, resolvedBefore, mirror,
                   restored>>
    /\ store' = StoreListener(emits', status')
  ELSE IF ~id THEN
    /\ retryResult' = NotRegistered
    /\ emits' = << >>
    /\ UNCHANGED <<deps, retryFailedZensOnly, id, status, hasRun, runningTaos,
                   retries, aborted, pauseGate, runningZens, zstatus, zvalue, zerror,
                   dpc, dlayer, dfail, results, xpc, xerr, xsig, invoked, runResult,
                   cancelCalls, pauseCalls, cancelSnap, retrySnap, refused,
                   otherDone, otherTaos, cleared, pauseReturn, config, attempt,
                   timer, late, ncalls, retryLog, onCancel, resolvedBefore, mirror,
                   restored>>
    /\ store' = StoreListener(emits', status')
  ELSE
    /\ retries < MaxRetries
    /\ Calls < MaxCalls
    /\ retryResult' = Admitted
    /\ retries' = retries + 1
    /\ zstatus' = [z \in Zens |-> IF IsReset(z) THEN "pending" ELSE zstatus[z]]
    /\ zvalue' = [z \in Zens |-> IF IsReset(z) THEN Undefined ELSE zvalue[z]]
    /\ zerror' = [z \in Zens |-> IF IsReset(z) THEN NoError ELSE zerror[z]]
    /\ runningZens' = {}
    /\ pauseGate' = FALSE
    /\ xpc' = [d \in Drivers |-> [z \in Zens |-> Dropped(xpc[d][z])]]
    /\ status' = "running"
    /\ emits' = <<TaoRetryEvent>> \o updateStatus("running")
    /\ dpc' = [dpc EXCEPT ![retries + 1] = "start"]
    /\ cancelSnap' = {}
    /\ retrySnap' = {z \in Zens : zstatus[z] = "completed"}
    /\ UNCHANGED <<deps, retryFailedZensOnly, id, hasRun, runningTaos, aborted,
                   dlayer, dfail, results, xerr, xsig, invoked, runResult,
                   cancelCalls, pauseCalls, refused, otherDone, otherTaos, cleared,
                   pauseReturn, config, attempt, timer, late, ncalls, retryLog,
                   onCancel, resolvedBefore, mirror, restored>>
    /\ store' = StoreListener(emits', status')

(* ===================== the run() / retry() batch loop ================== *)
\* The check "signal.aborted" of the batch loop: updateStatus("cancelled"),
\* then, after its await, throw new Error("Tao cancelled").
ThrowCancelled(d) ==
  /\ status' = "cancelled"
  /\ emits' = updateStatus("cancelled")
  /\ dpc' = [dpc EXCEPT ![d] = "throwing"]
  /\ dfail' = [dfail EXCEPT ![d] = TaoCancelled]
  /\ UNCHANGED <<deps, retryFailedZensOnly, id, hasRun, runningTaos, retries,
                 aborted, pauseGate, runningZens, zstatus, zvalue, zerror, dlayer,
                 results, xpc, xerr, xsig, invoked, runResult, cancelCalls,
                 pauseCalls, cancelSnap, retrySnap, retryResult, refused, otherDone,
                 otherTaos, cleared, pauseReturn, config, attempt, timer, late,
                 ncalls, retryLog, onCancel, resolvedBefore, mirror, restored>>
  /\ store' = StoreListener(emits', status')

\* The catch of run()/retry(): the synchronous part of
\* handleZenError(error, ""), up to its first await.
CatchSync(d, error) ==
  /\ zstatus' = handleZenErrorStatus(error, "")
  /\ zerror' = handleZenErrorError(error, "")
  /\ onCancel' = executeOnCancel(OtherRunning(error, ""), d)
  /\ dfail' = [dfail EXCEPT ![d] = error]
  /\ IF isTaoCancelled(error)
     THEN /\ status' = "cancelled"
          /\ emits' = updateStatus("cancelled")
          /\ dpc' = [dpc EXCEPT ![d] = "catch3"]
     ELSE /\ dpc' = [dpc EXCEPT ![d] = "catch2"]
          /\ emits' = << >>
          /\ UNCHANGED status
  /\ UNCHANGED <<deps, retryFailedZensOnly, id, hasRun, runningTaos, retries,
                 aborted, pauseGate, runningZens, zvalue, dlayer, results, xpc, xerr,
                 xsig, invoked, runResult, cancelCalls, pauseCalls, cancelSnap,
                 retrySnap, retryResult, refused, otherDone, otherTaos, cleared,
                 pauseReturn, config, attempt, timer, late, ncalls, retryLog,
                 resolvedBefore, mirror, restored>>
  /\ store' = StoreListener(emits', status')

\* Start the batch `layer` (1-based) of the execution order.
BeginBatch(d, order, layer) ==
  /\ Commit(StartBatch(Work(d), d, order[layer]), d)
  /\ dlayer' = [dlayer EXCEPT ![d] = layer]
  /\ dpc' = [dpc EXCEPT ![d] = "waitBatch"]
  /\ UNCHANGED <<deps, retryFailedZensOnly, id, status, hasRun, runningTaos, retries,
                 aborted, pauseGate, zvalue, dfail, invoked, runResult, cancelCalls,
                 pauseCalls, cancelSnap, retrySnap, retryResult, refused, otherDone,
                 otherTaos, cleared, pauseReturn, config, attempt, timer, late,
                 ncalls, retryLog, onCancel, resolvedBefore, mirror, restored>>
  /\ store' = StoreListener(emits', status')

\* run(): after the await of updateStatus("running"), the first check of
\* the signal, getExecutionOrder and the first batch.
\* retry(): the same without the first check of the signal.
DriverStart(d) ==
  /\ dpc[d] = "start"
  /\ IF d = 0 /\ retries \in aborted THEN ThrowCancelled(d)
     ELSE LET order == getExecutionOrder IN
          IF IsCircular(order) THEN CatchSync(d, CircularDependency)
          ELSE IF retries \in aborted THEN ThrowCancelled(d)
          ELSE BeginBatch(d, order, 1)

\* Variant for C1: the loop goes on as soon as one closure of the batch
\* has finished (Promise.race in place of Promise.all).
BatchDone_AnyDone(d) ==
  /\ dpc[d] = "waitBatch"
  /\ dfail[d] = NoError
  /\ \E z \in SeqRange(getExecutionOrder[dlayer[d]]) : xpc[d][z] = "done"

\* Variant for C2: the loop goes on when every closure of the batch has
\* settled, rejected or not (Promise.allSettled in place of Promise.all).
BatchDone_AllSettled(d) ==
  /\ dpc[d] = "waitBatch"
  /\ \A z \in SeqRange(getExecutionOrder[dlayer[d]]) :
        xpc[d][z] \in {"done", "rejected"}

\* Variant for C29: a closure waiting at the pause gate after its step has
\* finished counts as finished.
BatchDone_GateCounts(d) ==
  /\ dpc[d] = "waitBatch"
  /\ dfail[d] = NoError
  /\ \A z \in SeqRange(getExecutionOrder[dlayer[d]]) :
        xpc[d][z] \in {"done", "gateAfter"}

\* Promise.all of the current batch has resolved.
BatchDone(d) ==
  /\ dpc[d] = "waitBatch"
  /\ dfail[d] = NoError
  /\ \A z \in SeqRange(getExecutionOrder[dlayer[d]]) : xpc[d][z] = "done"

\* The loop after the await of Promise.all: the next batch, or the end of
\* the loop with the last check of the signal and
\* updateStatus("completed").
DriverNextBatch(d) ==
  /\ BatchDone(d)
  /\ IF retries \in aborted THEN ThrowCancelled(d)
     ELSE IF dlayer[d] < Len(getExecutionOrder)
          THEN BeginBatch(d, getExecutionOrder, dlayer[d] + 1)
          ELSE /\ status' = "completed"
               /\ emits' = updateStatus("completed")
               /\ dpc' = [dpc EXCEPT ![d] = "returning"]
               /\ UNCHANGED <<deps, retryFailedZensOnly, id, hasRun, runningTaos,
                              retries, aborted, pauseGate, runningZens, zstatus,
                              zvalue, zerror, dlayer, dfail, results, xpc, xerr,
                              xsig, invoked, runResult, cancelCalls, pauseCalls,
                              cancelSnap, retrySnap, retryResult, refused, otherDone,
                              otherTaos, cleared, pauseReturn, config, attempt,
                              timer, late, ncalls, retryLog, onCancel,
                              resolvedBefore, mirror, restored>>
               /\ store' = StoreListener(emits', status')

\* return results; the finally of run() releases the running counter
\* (retry() has no such finally).
DriverReturn(d) ==
  /\ dpc[d] = "returning"
  /\ dpc' = [dpc EXCEPT ![d] = "resolved"]
  /\ runningTaos' = IF d = 0 THEN Max(0, runningTaos - 1) ELSE runningTaos
  /\ emits' = << >>
  /\ UNCHANGED <<deps, retryFailedZensOnly, id, status, hasRun, retries, aborted,
                 pauseGate, runningZens, zstatus, zvalue, zerror, dlayer, dfail,
                 results, xpc, xerr, xsig, invoked, runResult, cancelCalls,
                 pauseCalls, cancelSnap, retrySnap, retryResult, refused, otherDone,
                 otherTaos, cleared, pauseReturn, config, attempt, timer, late,
                 ncalls, retryLog, onCancel, resolvedBefore, mirror, restored>>
  /\ store' = StoreListener(emits', status')

\* The catch of run()/retry(): entered by a throw of the loop or by the
\* first rejection of a closure of the batch (Promise.all).
DriverCatch(d) ==
  /\ \/ dpc[d] = "throwing"
     \/ dpc[d] = "waitBatch" /\ dfail[d] # NoError
  /\ CatchSync(d, dfail[d])

\* handleZenError after the await of Promise.all: updateStatus("failed").
DriverCatch2(d) ==
  /\ dpc[d] = "catch2"
  /\ status' = "failed"
  /\ emits' = updateStatus("failed")
  /\ dpc' = [dpc EXCEPT ![d] = "catch3"]
  /\ UNCHANGED <<deps, retryFailedZensOnly, id, hasRun, runningTaos, retries,
                 aborted, pauseGate, runningZens, zstatus, zvalue, zerror, dlayer,
                 dfail, results, xpc, xerr, xsig, invoked, runResult, cancelCalls,
                 pauseCalls, cancelSnap, retrySnap, retryResult, refused, otherDone,
                 otherTaos, cleared, pauseReturn, config, attempt, timer, late,
                 ncalls, retryLog, onCancel, resolvedBefore, mirror, restored>>
  /\ store' = StoreListener(emits', status')

\* throw error; the finally of run() releases the running counter.
DriverCatch3(d) ==
  /\ dpc[d] = "catch3"
  /\ dpc' = [dpc EXCEPT ![d] = "rejected"]
  /\ runningTaos' = IF d = 0 THEN Max(0, runningTaos - 1) ELSE runningTaos
  /\ emits' = << >>
  /\ UNCHANGED <<deps, retryFailedZensOnly, id, status, hasRun, retries, aborted,
                 pauseGate, runningZens, zstatus, zvalue, zerror, dlayer, dfail,
                 results, xpc, xerr, xsig, invoked, runResult, cancelCalls,
                 pauseCalls, cancelSnap, retrySnap, retryResult, refused, otherDone,
                 otherTaos, cleared, pauseReturn, config, attempt, timer, late,
                 ncalls, retryLog, onCancel, resolvedBefore, mirror, restored>>
  /\ store' = StoreListener(emits', status')

(* ================== the closure of one zen of a batch ================== *)
\* The pause promise has resolved: executeZen goes on to zen._execute with
\* the signal of the current controller, without reading the status again.
GateBeforeContinue(d, z) ==
  /\ xpc[d][z] = "released"
  /\ Commit(ExecuteSync(Work(d), z, retries), d)
  /\ UNCHANGED <<deps, retryFailedZensOnly, id, status, hasRun, runningTaos, retries,
                 aborted, pauseGate, zvalue, dpc, dlayer, dfail, invoked, runResult,
                 cancelCalls, pauseCalls, cancelSnap, retrySnap, retryResult,
                 refused, otherDone, otherTaos, cleared, pauseReturn, config,
                 attempt, timer, late, ncalls, retryLog, onCancel, resolvedBefore,
                 mirror, restored>>
  /\ store' = StoreListener(emits', status')

\* executeCore calls the wrapped function: attempt `att` of
\* executeWithRetry (0 without a retry policy); executeWithTimeout arms
\* its timer.
CallFn(d, z, att) ==
  /\ invoked' = [invoked EXCEPT ![d] = @ \cup {z}]
  /\ ncalls' = [ncalls EXCEPT ![z] = @ + 1]
  /\ attempt' = [attempt EXCEPT ![d][z] = att]
  /\ timer' = [timer EXCEPT ![d][z] = IF HasTimeout(z) THEN "armed" ELSE "off"]
  /\ xpc' = [xpc EXCEPT ![d][z] = "executing"]

\* Zen._execute after the await of waitForDependencies: the first check of
\* the loop of executeWithRetry when a retry policy is set, then
\* executeCore up to the call of the wrapped function.
InvokeFn(d, z) ==
  /\ xpc[d][z] = "depsWait"
  /\ IF HasRetry(z) /\ xsig[d][z] \in aborted
     THEN /\ xpc' = [xpc EXCEPT ![d][z] = "zenErr"]
          /\ xerr' = [xerr EXCEPT ![d][z] = TaskCancelledRetry]
          /\ xsig' = [xsig EXCEPT ![d][z] = NoSignal]
          /\ UNCHANGED <<zstatus, invoked, ncalls, attempt, timer>>
     ELSE IF xsig[d][z] \in aborted \/ zstatus[z] = "cancelled"
     THEN /\ zstatus' = [zstatus EXCEPT ![z] = "cancelled"]
          /\ xpc' = [xpc EXCEPT ![d][z] = "zenErr"]
          /\ xerr' = [xerr EXCEPT ![d][z] = TaskCancelled]
          /\ xsig' = [xsig EXCEPT ![d][z] = NoSignal]
          /\ UNCHANGED <<invoked, ncalls, attempt, timer>>
     ELSE /\ CallFn(d, z, IF HasRetry(z) THEN 1 ELSE 0)
          /\ UNCHANGED <<zstatus, xerr, xsig>>
  /\ emits' = << >>
  /\ UNCHANGED <<deps, retryFailedZensOnly, id, status, hasRun, runningTaos, retries,
                 aborted, pauseGate, runningZens, zvalue, zerror, dpc, dlayer, dfail,
                 results, runResult, cancelCalls, pauseCalls, cancelSnap, retrySnap,
                 retryResult, refused, otherDone, otherTaos, cleared, pauseReturn,
                 config, late, retryLog, onCancel, resolvedBefore, mirror, restored>>
  /\ store' = StoreListener(emits', status')

\* The value the function of z returns when called by the call d.
FnValue(d, z) == <<z, d>>

\* The wrapped function's promise settles (the environment decides how)
\* and executeCore continues after its await: on success it stores value
\* and status, on failure its catch rethrows, to the catch of
\* executeWithRetry when a retry policy is set.  executeWithTimeout clears
\* its timer.
FnResolve(d, z) ==
  /\ xpc[d][z] = "executing"
  /\ zvalue' = [zvalue EXCEPT ![z] = FnValue(d, z)]
  /\ zstatus' = [zstatus EXCEPT ![z] = "completed"]
  /\ xpc' = [xpc EXCEPT ![d][z] = "zenOk"]
  /\ timer' = [timer EXCEPT ![d][z] = "off"]
  /\ resolvedBefore' = [resolvedBefore EXCEPT ![d][z] =
                          {y \in Zens \ {z} : xpc[d][y] \in ResolvedPcs}]
  /\ emits' = << >>
  /\ UNCHANGED <<deps, retryFailedZensOnly, id, status, hasRun, runningTaos, retries,
                 aborted, pauseGate, runningZens, zerror, dpc, dlayer, dfail,
                 results, xerr, xsig, invoked, runResult, cancelCalls, pauseCalls,
                 cancelSnap, retrySnap, retryResult, refused, otherDone, otherTaos,
                 cleared, pauseReturn, config, attempt, late, ncalls, retryLog,
                 onCancel, mirror, restored>>
  /\ store' = StoreListener(emits', status')

FnReject(d, z) ==
  /\ xpc[d][z] = "executing"
  /\ xpc' = [xpc EXCEPT ![d][z] = IF HasRetry(z) THEN "retryCatch" ELSE "zenErr"]
  /\ xerr' = [xerr EXCEPT ![d][z] = IF HasRetry(z) THEN AttemptError(z, attempt[d][z])
                                    ELSE FnError(z)]
  /\ timer' = [timer EXCEPT ![d][z] = "off"]
  /\ emits' = << >>
  /\ UNCHANGED <<deps, retryFailedZensOnly, id, status, hasRun, runningTaos, retries,
                 aborted, pauseGate, runningZens, zstatus, zvalue, zerror, dpc,
                 dlayer, dfail, results, xsig, invoked, runResult, cancelCalls,
                 pauseCalls, cancelSnap, retrySnap, retryResult, refused, otherDone,
                 otherTaos, cleared, pauseReturn, config, attempt, late, ncalls,
                 retryLog, onCancel, resolvedBefore, mirror, restored>>
  /\ store' = StoreListener(emits', status')

\* Variant for C13: the loop gives up one attempt early.
RetryCatch_StopEarly(d, z) ==
  /\ xpc[d][z] = "retryCatch"
  /\ LET rc == retryConfig(config[z].retry)
         delay == RetryDelay(rc, attempt[d][z])
     IN IF attempt[d][z] + 1 >= rc.maxAttempts
        THEN /\ xpc' = [xpc EXCEPT ![d][z] = "zenErr"]
             /\ emits' = << >>
             /\ UNCHANGED retryLog
        ELSE /\ xpc' = [xpc EXCEPT ![d][z] = "backoff"]
             /\ emits' = <<ZenRetryEvent(attempt[d][z], delay)>>
             /\ retryLog' = [retryLog EXCEPT ![z] = Append(@, <<attempt[d][z], delay>>)]
  /\ UNCHANGED <<deps, retryFailedZensOnly, id, status, hasRun, runningTaos, retries,
                 aborted, pauseGate, runningZens, zstatus, zvalue, zerror, dpc,
                 dlayer, dfail, results, xerr, xsig, invoked, runResult, cancelCalls,
                 pauseCalls, cancelSnap, retrySnap, retryResult, refused, otherDone,
                 otherTaos, cleared, pauseReturn, config, attempt, timer, late,
                 ncalls, onCancel, resolvedBefore, mirror, restored>>
  /\ store' = StoreListener(emits', status')

\* The catch of the loop of executeWithRetry for an error of the function:
\* after the last attempt the loop ends and the error is thrown; otherwise
\* zen:retry is emitted and the backoff wait begins.
RetryCatch(d, z) ==
  /\ xpc[d][z] = "retryCatch"
  /\ LET rc == retryConfig(config[z].retry)
         delay == RetryDelay(rc, attempt[d][z])
     IN IF attempt[d][z] = rc.maxAttempts
        THEN /\ xpc' = [xpc EXCEPT ![d][z] = "zenErr"]
             /\ emits' = << >>
             /\ UNCHANGED retryLog
        ELSE /\ xpc' = [xpc EXCEPT ![d][z] = "backoff"]
             /\ emits' = <<ZenRetryEvent(attempt[d][z], delay)>>
             /\ retryLog' = [retryLog EXCEPT ![z] = Append(@, <<attempt[d][z], delay>>)]
  /\ UNCHANGED <<deps, retryFailedZensOnly, id, status, hasRun, runningTaos, retries,
                 aborted, pauseGate, runningZens, zstatus, zvalue, zerror, dpc,
                 dlayer, dfail, results, xerr, xsig, invoked, runResult, cancelCalls,
                 pauseCalls, cancelSnap, retrySnap, retryResult, refused, otherDone,
                 otherTaos, cleared, pauseReturn, config, attempt, timer, late,
                 ncalls, onCancel, resolvedBefore, mirror, restored>>
  /\ store' = StoreListener(emits', status')

\* The backoff timer fires: the check after the wait, the check at the
\* head of the loop, then the next attempt.  (An abort during the wait is
\* part of cancel(); a wait begun on an aborted signal is not woken by it
\* and lasts the whole delay.)
BackoffDone(d, z) ==
  /\ xpc[d][z] = "backoff"
  /\ IF xsig[d][z] \in aborted
     THEN /\ xpc' = [xpc EXCEPT ![d][z] = "zenErr"]
          /\ xerr' = [xerr EXCEPT ![d][z] = TaskCancelledWait]
          /\ UNCHANGED <<zstatus, invoked, ncalls, attempt, timer>>
     ELSE IF zstatus[z] = "cancelled"
     THEN /\ xpc' = [xpc EXCEPT ![d][z] = "zenErr"]
          /\ xerr' = [xerr EXCEPT ![d][z] = TaskCancelled]
          /\ attempt' = [attempt EXCEPT ![d][z] = @ + 1]
          /\ UNCHANGED <<zstatus, invoked, ncalls, timer>>
     ELSE /\ CallFn(d, z, attempt[d][z] + 1)
          /\ UNCHANGED <<zstatus, xerr>>
  /\ emits' = << >>
  /\ UNCHANGED <<deps, retryFailedZensOnly, id, status, hasRun, runningTaos, retries,
                 aborted, pauseGate, runningZens, zvalue, zerror, dpc, dlayer, dfail,
                 results, xsig, runResult, cancelCalls, pauseCalls, cancelSnap,
                 retrySnap, retryResult, refused, otherDone, otherTaos, cleared,
                 pauseReturn, config, late, retryLog, onCancel, resolvedBefore,
                 mirror, restored>>
  /\ store' = StoreListener(emits', status')

\* The timer of executeWithTimeout fires while the function is pending:
\* the race rejects with the timeout error; executeCore goes on awaiting
\* the function.
TimerFire(d, z) ==
  /\ xpc[d][z] = "executing"
  /\ timer[d][z] = "armed"
  /\ xpc' = [xpc EXCEPT ![d][z] = "zenErr"]
  /\ xerr' = [xerr EXCEPT ![d][z] = TimedOut(z)]
  /\ timer' = [timer EXCEPT ![d][z] = "off"]
  /\ late' = [late EXCEPT ![d][z] = TRUE]
  /\ emits' = << >>
  /\ UNCHANGED <<deps, retryFailedZensOnly, id, status, hasRun, runningTaos, retries,
                 aborted, pauseGate, runningZens, zstatus, zvalue, zerror, dpc,
                 dlayer, dfail, results, xsig, invoked, runResult, cancelCalls,
                 pauseCalls, cancelSnap, retrySnap, retryResult, refused, otherDone,
                 otherTaos, cleared, pauseReturn, config, attempt, ncalls, retryLog,
                 onCancel, resolvedBefore, mirror, restored>>
  /\ store' = StoreListener(emits', status')

\* The function settles after the timeout: the executeCore left behind
\* continues after its await.
LateResolve(d, z) ==
  /\ late[d][z]
  /\ zvalue' = [zvalue EXCEPT ![z] = FnValue(d, z)]
  /\ zstatus' = [zstatus EXCEPT ![z] = "completed"]
  /\ late' = [late EXCEPT ![d][z] = FALSE]
  /\ emits' = << >>
  /\ UNCHANGED <<deps, retryFailedZensOnly, id, status, hasRun, runningTaos, retries,
                 aborted, pauseGate, runningZens, zerror, dpc, dlayer, dfail,
                 results, xpc, xerr, xsig, invoked, runResult, cancelCalls,
                 pauseCalls, cancelSnap, retrySnap, retryResult, refused, otherDone,
                 otherTaos, cleared, pauseReturn, config, attempt, timer, ncalls,
                 retryLog, onCancel, resolvedBefore, mirror, restored>>
  /\ store' = StoreListener(emits', status')

LateReject(d, z) ==
  /\ late[d][z]
  /\ late' = [late EXCEPT ![d][z] = FALSE]
  /\ emits' = << >>
  /\ UNCHANGED <<deps, retryFailedZensOnly, id, status, hasRun, runningTaos, retries,
                 aborted, pauseGate, runningZens, zstatus, zvalue, zerror, dpc,
                 dlayer, dfail, results, xpc, xerr, xsig, invoked, runResult,
                 cancelCalls, pauseCalls, cancelSnap, retrySnap, retryResult,
                 refused, otherDone, otherTaos, cleared, pauseReturn, config,
                 attempt, timer, ncalls, retryLog, onCancel, resolvedBefore, mirror,
                 restored>>
  /\ store' = StoreListener(emits', status')

\* Zen._execute after the await of executeCore: status, value, and the
\* finally that removes the abort listener.
ZenOk(d, z) ==
  /\ xpc[d][z] = "zenOk"
  /\ zstatus' = [zstatus EXCEPT ![z] = "completed"]
  /\ zvalue' = [zvalue EXCEPT ![z] = FnValue(d, z)]
  /\ xpc' = [xpc EXCEPT ![d][z] = "taoOk"]
  /\ xsig' = [xsig EXCEPT ![d][z] = NoSignal]
  /\ emits' = << >>
  /\ UNCHANGED <<deps, retryFailedZensOnly, id, status, hasRun, runningTaos, retries,
                 aborted, pauseGate, runningZens, zerror, dpc, dlayer, dfail,
                 results, xerr, invoked, runResult, cancelCalls, pauseCalls,
                 cancelSnap, retrySnap, retryResult, refused, otherDone, otherTaos,
                 cleared, pauseReturn, config, attempt, timer, late, ncalls,
                 retryLog, onCancel, resolvedBefore, mirror, restored>>
  /\ store' = StoreListener(emits', status')

\* Variant for C14: Zen.handleZenError records the error but leaves the
\* status as it is.
ZenErr_NoStatus(d, z) ==
  /\ xpc[d][z] = "zenErr"
  /\ zerror' = [zerror EXCEPT ![z] = xerr[d][z]]
  /\ emits' = <<ZenFailEvent>>
  /\ xpc' = [xpc EXCEPT ![d][z] = "taoErr"]
  /\ xsig' = [xsig EXCEPT ![d][z] = NoSignal]
  /\ UNCHANGED <<deps, retryFailedZensOnly, id, status, hasRun, runningTaos, retries,
                 aborted, pauseGate, runningZens, zstatus, zvalue, dpc, dlayer,
                 dfail, results, xerr, invoked, runResult, cancelCalls, pauseCalls,
                 cancelSnap, retrySnap, retryResult, refused, otherDone, otherTaos,
                 cleared, pauseReturn, config, attempt, timer, late, ncalls,
                 retryLog, onCancel, resolvedBefore, mirror, restored>>
  /\ store' = StoreListener(emits', status')

\* The catch of Zen._execute: Zen.handleZenError, and the finally that
\* removes the abort listener.
ZenErr(d, z) ==
  /\ xpc[d][z] = "zenErr"
  /\ zstatus' = [zstatus EXCEPT ![z] =
                   IF isTaskCancelled(xerr[d][z]) THEN "cancelled" ELSE "failed"]
  /\ zerror' = [zerror EXCEPT ![z] = xerr[d][z]]
  /\ emits' = <<ZenFailEvent>>
  /\ xpc' = [xpc EXCEPT ![d][z] = "taoErr"]
  /\ xsig' = [xsig EXCEPT ![d][z] = NoSignal]
  /\ UNCHANGED <<deps, retryFailedZensOnly, id, status, hasRun, runningTaos, retries,
                 aborted, pauseGate, runningZens, zvalue, dpc, dlayer, dfail,
                 results, xerr, invoked, runResult, cancelCalls, pauseCalls,
                 cancelSnap, retrySnap, retryResult, refused, otherDone, otherTaos,
                 cleared, pauseReturn, config, attempt, timer, late, ncalls,
                 retryLog, onCancel, resolvedBefore, mirror, restored>>
  /\ store' = StoreListener(emits', status')

\* Tao.executeZen after the await of zen._execute: the pause check.
TaoOk(d, z) ==
  /\ xpc[d][z] = "taoOk"
  /\ IF status = "paused"
     THEN /\ emits' = <<ZenPauseEvent>>
          /\ xpc' = [xpc EXCEPT ![d][z] = IF pauseGate THEN "gateAfter" ELSE "closeOk"]
     ELSE /\ xpc' = [xpc EXCEPT ![d][z] = "closeOk"]
          /\ emits' = << >>
  /\ UNCHANGED <<deps, retryFailedZensOnly, id, status, hasRun, runningTaos, retries,
                 aborted, pauseGate, runningZens, zstatus, zvalue, zerror, dpc,
                 dlayer, dfail, results, xerr, xsig, invoked, runResult, cancelCalls,
                 pauseCalls, cancelSnap, retrySnap, retryResult, refused, otherDone,
                 otherTaos, cleared, pauseReturn, config, attempt, timer, late,
                 ncalls, retryLog, onCancel, resolvedBefore, mirror, restored>>
  /\ store' = StoreListener(emits', status')

\* Variant for C3: the closure does not store the result.
CloseOk_NoResult(d, z) ==
  /\ xpc[d][z] = "closeOk"
  /\ runningZens' = runningZens \ {z}
  /\ emits' = <<ZenCompleteEvent>>
  /\ xpc' = [xpc EXCEPT ![d][z] = "done"]
  /\ UNCHANGED <<deps, retryFailedZensOnly, id, status, hasRun, runningTaos, retries,
                 aborted, pauseGate, zstatus, zvalue, zerror, dpc, dlayer, dfail,
                 results, xerr, xsig, invoked, runResult, cancelCalls, pauseCalls,
                 cancelSnap, retrySnap, retryResult, refused, otherDone, otherTaos,
                 cleared, pauseReturn, config, attempt, timer, late, ncalls,
                 retryLog, onCancel, resolvedBefore, mirror, restored>>
  /\ store' = StoreListener(emits', status')

\* The closure after the await of executeZen: the results map, runningZens
\* and the zen:complete event.
CloseOk(d, z) ==
  /\ xpc[d][z] = "closeOk"
  /\ results' = [results EXCEPT ![d][z] = FnValue(d, z)]
  /\ runningZens' = runningZens \ {z}
  /\ emits' = <<ZenCompleteEvent>>
  /\ xpc' = [xpc EXCEPT ![d][z] = "done"]
  /\ UNCHANGED <<deps, retryFailedZensOnly, id, status, hasRun, runningTaos, retries,
                 aborted, pauseGate, zstatus, zvalue, zerror, dpc, dlayer, dfail,
                 xerr, xsig, invoked, runResult, cancelCalls, pauseCalls, cancelSnap,
                 retrySnap, retryResult, refused, otherDone, otherTaos, cleared,
                 pauseReturn, config, attempt, timer, late, ncalls, retryLog,
                 onCancel, resolvedBefore, mirror, restored>>
  /\ store' = StoreListener(emits', status')

\* The catch of Tao.executeZen: the synchronous part of
\* handleZenError(error, zenId).
TaoErr(d, z) ==
  /\ xpc[d][z] = "taoErr"
  /\ zstatus' = handleZenErrorStatus(xerr[d][z], z)
  /\ zerror' = handleZenErrorError(xerr[d][z], z)
  /\ onCancel' = executeOnCancel(OtherRunning(xerr[d][z], z), d)
  /\ IF isTaoCancelled(xerr[d][z])
     THEN /\ status' = "cancelled"
          /\ emits' = updateStatus("cancelled")
          /\ xpc' = [xpc EXCEPT ![d][z] = "closeErr"]
     ELSE /\ xpc' = [xpc EXCEPT ![d][z] = "taoErr2"]
          /\ emits' = << >>
          /\ UNCHANGED status
  /\ UNCHANGED <<deps, retryFailedZensOnly, id, hasRun, runningTaos, retries,
                 aborted, pauseGate, runningZens, zvalue, dpc, dlayer, dfail,
                 results, xerr, xsig, invoked, runResult, cancelCalls, pauseCalls,
                 cancelSnap, retrySnap, retryResult, refused, otherDone, otherTaos,
                 cleared, pauseReturn, config, attempt, timer, late, ncalls,
                 retryLog, resolvedBefore, mirror, restored>>
  /\ store' = StoreListener(emits', status')

\* handleZenError after the await of Promise.all: updateStatus("failed").
TaoErr2(d, z) ==
  /\ xpc[d][z] = "taoErr2"
  /\ status' = "failed"
  /\ emits' = updateStatus("failed")
  /\ xpc' = [xpc EXCEPT ![d][z] = "closeErr"]
  /\ UNCHANGED <<deps, retryFailedZensOnly, id, hasRun, runningTaos, retries,
                 aborted, pauseGate, runningZens, zstatus, zvalue, zerror, dpc,
                 dlayer, dfail, results, xerr, xsig, invoked, runResult, cancelCalls,
                 pauseCalls, cancelSnap, retrySnap, retryResult, refused, otherDone,
                 otherTaos, cleared, pauseReturn, config, attempt, timer, late,
                 ncalls, retryLog, onCancel, resolvedBefore, mirror, restored>>
  /\ store' = StoreListener(emits', status')

\* executeZen rejects; the catch of the closure removes the zen from
\* runningZens and rethrows.  Promise.all rejects with the first rejection.
CloseErr(d, z) ==
  /\ xpc[d][z] = "closeErr"
  /\ runningZens' = runningZens \ {z}
  /\ xpc' = [xpc EXCEPT ![d][z] = "rejected"]
  /\ xsig' = [xsig EXCEPT ![d][z] = NoSignal]
  /\ dfail' = [dfail EXCEPT ![d] = IF @ = NoError THEN xerr[d][z] ELSE @]
  /\ emits' = << >>
  /\ UNCHANGED <<deps, retryFailedZensOnly, id, status, hasRun, runningTaos, retries,
                 aborted, pauseGate, zstatus, zvalue, zerror, dpc, dlayer, results,
                 xerr, invoked, runResult, cancelCalls, pauseCalls, cancelSnap,
                 retrySnap, retryResult, refused, otherDone, otherTaos, cleared,
                 pauseReturn, config, attempt, timer, late, ncalls, retryLog,
                 onCancel, resolvedBefore, mirror, restored>>
  /\ store' = StoreListener(emits', status')

(* ============================ specification ============================ *)
\* The continuations on the success path.
Advance ==
  \/ \E d \in Drivers : DriverStart(d)
  \/ \E d \in Drivers : DriverNextBatch(d)
  \/ \E d \in Drivers : DriverReturn(d)
  \/ \E d \in Drivers, z \in Zens : GateBeforeContinue(d, z)
  \/ \E d \in Drivers, z \in Zens : InvokeFn(d, z)
  \/ \E d \in Drivers, z \in Zens : ZenOk(d, z)
  \/ \E d \in Drivers, z \in Zens : TaoOk(d, z)
  \/ \E d \in Drivers, z \in Zens : CloseOk(d, z)

\* The continuations that unwind an error.
Unwind ==
  \/ \E d \in Drivers : DriverCatch(d)
  \/ \E d \in Drivers : DriverCatch2(d)
  \/ \E d \in Drivers : DriverCatch3(d)
  \/ \E d \in Drivers, z \in Zens : ZenErr(d, z)
  \/ \E d \in Drivers, z \in Zens : TaoErr(d, z)
  \/ \E d \in Drivers, z \in Zens : TaoErr2(d, z)
  \/ \E d \in Drivers, z \in Zens : CloseErr(d, z)

\* The step functions settle as the environment decides.
Succeed == \E d \in Drivers, z \in Zens : FnResolve(d, z)
Fail == \E d \in Drivers, z \in Zens : FnReject(d, z)

\* One graph that is run, paused, resumed and cancelled.
Next == Run \/ Pause \/ Resume \/ Cancel \/ Advance \/ Unwind \/ Succeed \/ Fail

Spec == Init /\ [][Next]_vars

\* One graph that is run and, once the previous call has settled, retried,
\* with at most MaxRetryPauses pause() calls on the way.
PauseFew == pauseCalls < MaxRetryPauses /\ Pause
RetrySettled == dpc[retries] \in {"resolved", "rejected"} /\ Retry

NextRetry ==
  Run \/ PauseFew \/ Resume \/ RetrySettled \/ Advance \/ Unwind \/ Succeed \/ Fail

SpecRetry == Init /\ [][NextRetry]_vars

\* One acyclic graph that is run, paused and resumed, whose functions all
\* succeed.  Continuations are jobs of the microtask queue, which runs
\* every job it holds; resume() is called whenever the graph is paused and
\* every function settles.
InitLive == Init /\ ~IsCircular(getExecutionOrder)

NextLive == Run \/ Pause \/ Resume \/ Advance \/ Succeed

SpecLive ==
  /\ InitLive
  /\ [][NextLive]_vars
  /\ WF_vars(Advance)
  /\ WF_vars(Resume)
  /\ WF_vars(Succeed)

\* The continuation of the retry loop, the timers and the functions that
\* settle after a timeout.
RetryLoop == \E d \in Drivers, z \in Zens : RetryCatch(d, z)
Timers ==
  \/ \E d \in Drivers, z \in Zens : BackoffDone(d, z)
  \/ \E d \in Drivers, z \in Zens : TimerFire(d, z)
LateSettle ==
  \/ \E d \in Drivers, z \in Zens : LateResolve(d, z)
  \/ \E d \in Drivers, z \in Zens : LateReject(d, z)

\* One graph whose zen A carries a retry policy or a timeout, run and
\* cancelled, with at most MaxRetryPauses pause() calls on the way.
NextPolicy ==
  \/ Run \/ PauseFew \/ Resume \/ Cancel
  \/ Advance \/ Unwind \/ Succeed \/ Fail
  \/ RetryLoop \/ Timers \/ LateSettle

SpecPolicy == InitPolicy /\ [][NextPolicy]_vars

\* retry() called where it is refused: in a status other than failed and
\* cancelled, or on a graph that is not registered.
RetryRefused == (status \notin {"failed", "cancelled"} \/ ~id) /\ Retry

\* One graph that is run, paused, resumed and cancelled, with retry()
\* called where it is refused and with the running counter released by
\* other graphs.
NextMisuse ==
  \/ Run \/ PauseFew \/ Resume \/ Cancel
  \/ Advance \/ Unwind \/ Succeed \/ Fail
  \/ RetryRefused \/ OtherTaoDone

InitMisuse ==
  /\ \E g \in {Chain, Join} : Built(g, [z \in DOMAIN g |-> NoConfig])
  /\ retryFailedZensOnly \in BOOLEAN
  /\ id \in BOOLEAN
  /\ runningTaos \in {0, maxConcurrentTaos}
  /\ otherTaos = runningTaos
  /\ store = register
  /\ NotRestored

SpecMisuse == InitMisuse /\ [][NextMisuse]_vars

\* One registered graph, beside other graphs that hold slots of the running
\* counter, that is run, paused, resumed, cancelled, retried and removed.
CounterGraphs == {NoDeps({"A"}), Chain}

InitCounter ==
  /\ \E g \in CounterGraphs : Built(g, [z \in DOMAIN g |-> NoConfig])
  /\ retryFailedZensOnly = FALSE
  /\ id = TRUE
  /\ runningTaos \in {1, maxConcurrentTaos}
  /\ otherTaos = runningTaos
  /\ store = register
  /\ NotRestored

NextCounter ==
  \/ Run \/ PauseFew \/ Resume \/ Cancel \/ Remove \/ RetrySettled
  \/ Advance \/ Unwind \/ Succeed \/ Fail
  \/ OtherTaoDone

SpecCounter == InitCounter /\ [][NextCounter]_vars

\* One acyclic graph that is run, paused, resumed and cancelled.  The
\* continuations are jobs of the microtask queue, which runs every job it
\* holds, and every function settles.
CancelGraphs == {NoDeps({"A"}), Chain}

InitCancelLive ==
  /\ \E g \in CancelGraphs : Built(g, [z \in DOMAIN g |-> NoConfig])
  /\ retryFailedZensOnly = FALSE
  /\ id \in BOOLEAN
  /\ runningTaos = 0
  /\ otherTaos = 0
  /\ store = register
  /\ NotRestored

Settle == Succeed \/ Fail

NextCancelLive ==
  Run \/ Pause \/ Resume \/ Cancel \/ Advance \/ Unwind \/ Settle

SpecCancelLive ==
  /\ InitCancelLive
  /\ [][NextCancelLive]_vars
  /\ WF_vars(Advance)
  /\ WF_vars(Unwind)
  /\ WF_vars(Settle)

\* One registered graph that is run, paused through the static
\* Tao.pause(taoId) or through its own pause(), and resumed.
StoreGraphs == {NoDeps({"A"}), Chain}

InitStore ==
  /\ \E g \in StoreGraphs : Built(g, [z \in DOMAIN g |-> NoConfig])
  /\ retryFailedZensOnly = FALSE
  /\ id = TRUE
  /\ runningTaos = 0
  /\ otherTaos = 0
  /\ store = register
  /\ NotRestored

NextStore ==
  \/ Run \/ StaticPause \/ PauseFew \/ Resume
  \/ Advance \/ Unwind \/ Succeed \/ Fail

SpecStore == InitStore /\ [][NextStore]_vars

\* One graph of any dependency relation, run with at most MaxRetryPauses
\* pause() calls on the way.
InitOrder ==
  /\ \E g \in OrderGraphs : Built(g, [z \in DOMAIN g |-> NoConfig])
  /\ retryFailedZensOnly = FALSE
  /\ id = FALSE
  /\ runningTaos = 0
  /\ otherTaos = 0
  /\ store = register
  /\ NotRestored

NextOrder ==
  Run \/ PauseFew \/ Resume \/ Advance \/ Unwind \/ Succeed \/ Fail

SpecOrder == InitOrder /\ [][NextOrder]_vars

(* ---- reconstruction: static Tao.retry on a graph read from the store --- *)
\* Tao.initializeFromStorage: a failed or cancelled graph of the store is
\* reconstructed when the class is loaded.
initializeFromStorage ==
  /\ restored.pc = "none"
  /\ mirror.status \in {"failed", "cancelled"}
  /\ \E f \in FreshIds(DOMAIN mirror.deps) : restored' = restoreInstance(f)
  /\ emits' = << >>
  /\ UNCHANGED <<deps, retryFailedZensOnly, id, status, hasRun, runningTaos, retries,
                 aborted, pauseGate, runningZens, zstatus, zvalue, zerror, dpc,
                 dlayer, dfail, results, xpc, xerr, xsig, invoked, runResult,
                 cancelCalls, pauseCalls, cancelSnap, retrySnap, retryResult,
                 refused, otherDone, otherTaos, cleared, pauseReturn, config,
                 attempt, timer, late, ncalls, retryLog, onCancel, resolvedBefore,
                 mirror>>
  /\ store' = StoreListener(emits', status')

\* static Tao.retry(taoId, options) up to the first await of
\* instance.retry(): the checks of the stored status, restoreInstance when
\* there is no instance, then the reset of the zens and
\* updateStatus("running").
StaticRetry ==
  /\ restored.pc \in {"none", "restored", "settled"}
  /\ IF mirror.status \notin {"failed", "cancelled"} THEN
       /\ restored' = [restored EXCEPT !.result = "false"]
       /\ UNCHANGED mirror
     ELSE \E f \in FreshIds(DOMAIN mirror.deps), failedOnly \in BOOLEAN :
       LET inst == IF restored.pc = "none" THEN restoreInstance(f) ELSE restored
       IN /\ restored' =
               [inst EXCEPT
                  !.pc = "retrying",
                  !.status = "running",
                  !.result = "none",
                  !.error = NoError,
                  !.zens = [k \in DOMAIN inst.zens |->
                              IF failedOnly /\ inst.zens[k].status \notin {"failed", "cancelled"}
                              THEN inst.zens[k]
                              ELSE [inst.zens[k] EXCEPT !.status = "pending"]]]
          /\ mirror' = [mirror EXCEPT !.status = "running"]
  /\ emits' = << >>
  /\ UNCHANGED <<deps, retryFailedZensOnly, id, status, hasRun, runningTaos, retries,
                 aborted, pauseGate, runningZens, zstatus, zvalue, zerror, dpc,
                 dlayer, dfail, results, xpc, xerr, xsig, invoked, runResult,
                 cancelCalls, pauseCalls, cancelSnap, retrySnap, retryResult,
                 refused, otherDone, otherTaos, cleared, pauseReturn, config,
                 attempt, timer, late, ncalls, retryLog, onCancel, resolvedBefore>>
  /\ store' = StoreListener(emits', status')

\* instance.retry() after the await: getExecutionOrder, then the closures
\* of the first batch look their zen up with this.zens.get(zenId) and call
\* a method of it; the catch stores failed and static retry returns false.
\* With every zen found, the default executors resolve and the retry ends
\* completed.
StaticRetryRun ==
  /\ restored.pc = "retrying"
  /\ LET order == RestoredOrder(restored)
         error == IF IsCircular(order) THEN CircularDependency
                  ELSE IF \E i \in 1..Len(order) :
                             ~(SeqRange(order[i]) \subseteq DOMAIN restored.zens)
                       THEN UndefinedZen
                       ELSE NoError
     IN IF error # NoError
        THEN /\ restored' = [restored EXCEPT !.pc = "settled", !.status = "failed",
                                             !.result = "false", !.error = error]
             /\ mirror' = [mirror EXCEPT !.status = "failed"]
        ELSE /\ restored' =
                  [restored EXCEPT
                     !.pc = "settled", !.status = "completed", !.result = "true",
                     !.zens = [k \in DOMAIN restored.zens |->
                                 [restored.zens[k] EXCEPT !.status = "completed"]]]
             /\ mirror' = [mirror EXCEPT !.status = "completed"]
  /\ emits' = << >>
  /\ UNCHANGED <<deps, retryFailedZensOnly, id, status, hasRun, runningTaos, retries,
                 aborted, pauseGate, runningZens, zstatus, zvalue, zerror, dpc,
                 dlayer, dfail, results, xpc, xerr, xsig, invoked, runResult,
                 cancelCalls, pauseCalls, cancelSnap, retrySnap, retryResult,
                 refused, otherDone, otherTaos, cleared, pauseReturn, config,
                 attempt, timer, late, ncalls, retryLog, onCancel, resolvedBefore>>
  /\ store' = StoreListener(emits', status')

InitRestore ==
  /\ Built(NoDeps({"A"}), [z \in {"A"} |-> NoConfig])
  /\ retryFailedZensOnly = FALSE
  /\ id = FALSE
  /\ runningTaos = 0
  /\ otherTaos = 0
  /\ store = register
  /\ restored = NoInstance
  /\ \E g \in RestoreGraphs, st \in {"failed", "cancelled", "completed"} :
       \E zst \in [DOMAIN g -> {"completed", "failed", "cancelled"}] :
          mirror = Mirrored(g, st, zst)

NextRestore == initializeFromStorage \/ StaticRetry \/ StaticRetryRun

SpecRestore == InitRestore /\ [][NextRestore]_vars


(* =============================== claims ================================ *)
\* The dependency edges contain a cycle: some non-empty set of zens in
\* which every zen depends on a zen of the set.
HasCycle ==
  \E S \in SUBSET Zens : S # {} /\ \A z \in S : deps[z] \cap S # {}

\* The batch (1-based) of the execution order that holds z.
LayerOf(z) ==
  CHOOSE i \in 1..Len(getExecutionOrder) : z \in SeqRange(getExecutionOrder[i])

\* In the call d, the function of z was invoked and rejected.
FnFailed(d, z) == z \in invoked[d] /\ xerr[d][z] = FnError(z)

\* In the call d, z has reached status completed: its function returned
\* successfully in d, or a failed-only retry kept it as completed.
ReachedCompleted(d, z) ==
  xpc[d][z] \in {"zenOk", "taoOk", "gateAfter", "hungAfter", "closeOk", "done"}

IsCancellation(error) == Includes(error, <<"cancelled">>)

\* C1: in every run() or retry(), the function of a step is invoked only
\* after each of its dependencies has reached status completed in that
\* same call.
C1_DependenciesFirst ==
  \A d \in Drivers : \A z \in invoked[d] : \A y \in deps[z] :
     ReachedCompleted(d, y)

\* A step with a dependency has been invoked by run() and again by retry().
C1_Witness ==
  \E z \in Zens : deps[z] # {} /\ z \in invoked[0] /\ z \in invoked[1]

\* C2: once the function of a step has failed, no step of a later batch is
\* ever started in that run and the run never resolves; when no cancel()
\* intervenes, run() rejects with the error of a failing step and the graph
\* status is failed.
C2_FailedStepStopsRun ==
  \A d \in Drivers : \A z \in Zens :
     FnFailed(d, z) =>
       /\ \A y \in Zens :
            LayerOf(y) > LayerOf(z) => xpc[d][y] = "none" /\ y \notin invoked[d]
       /\ dpc[d] \notin {"returning", "resolved"}
       /\ (dpc[d] = "rejected" /\ cancelCalls = 0) =>
            /\ \E y \in Zens : FnFailed(d, y) /\ dfail[d] = FnError(y)
            /\ status = "failed"

\* The diamond with B failing: A and C are in the result map, D never
\* started, run() has rejected with B's error and the graph is failed.
C2_Witness ==
  /\ deps = Diamond
  /\ FnFailed(0, "B")
  /\ dpc[0] = "rejected"
  /\ dfail[0] = FnError("B")
  /\ status = "failed"
  /\ results[0]["A"] # Undefined
  /\ results[0]["C"] # Undefined
  /\ xpc[0]["D"] = "none"

\* C3: when run() resolves, its map holds for every step the value the
\* step's function returned and (no cancel() intervening) the graph status
\* is completed; and run() on an acyclic graph rejects, without a cancel(),
\* only if the function of some step failed.
C3_AllSucceed ==
  /\ dpc[0] = "resolved" =>
       /\ \A z \in Zens : results[0][z] = FnValue(0, z)
       /\ cancelCalls = 0 => status = "completed"
  /\ (dpc[0] = "rejected" /\ cancelCalls = 0 /\ ~HasCycle) =>
       \E z \in Zens : FnFailed(0, z)

\* The diamond has been run to the end, with a pause on the way.
C3_Witness ==
  /\ deps = Diamond
  /\ dpc[0] = "resolved"
  /\ status = "completed"
  /\ pauseCalls > 0
  /\ \A z \in Zens : results[0][z] = FnValue(0, z)

\* C4: on a graph with a dependency cycle no step is started and no
\* function is invoked, run() never resolves, and (no cancel() intervening)
\* it rejects with the circular-dependency error and the graph status is
\* failed.
C4_CycleRejected ==
  HasCycle =>
    /\ \A d \in Drivers : invoked[d] = {}
    /\ \A z \in Zens : xpc[0][z] = "none"
    /\ dpc[0] \notin {"waitBatch", "returning", "resolved"}
    /\ (dpc[0] = "rejected" /\ cancelCalls = 0) =>
         /\ dfail[0] = CircularDependency
         /\ status = "failed"

\* run() on the graph whose step A depends on itself has rejected.
C4_Witness ==
  /\ deps = SelfLoop
  /\ dpc[0] = "rejected"
  /\ dfail[0] = CircularDependency
  /\ status = "failed"
  /\ invoked[0] = {}

\* C5: a run() call made after a run() was admitted rejects with the
\* run-once error and changes nothing: not the graph status, not a step,
\* not the running counter, and no function is invoked.
C5_RunOnce ==
  [][(hasRun /\ Run) => (runResult' = AlreadyRun /\ UNCHANGED progVars)]_vars

\* A second run() has been rejected while the first was executing a step.
C5_Witness ==
  /\ runResult = AlreadyRun
  /\ dpc[0] = "waitBatch"
  /\ \E z \in Zens : xpc[0][z] = "executing"

\* C6: after a cancel() called while steps were executing, once no
\* continuation is pending the graph status is cancelled, every step that
\* was executing at the cancel has status cancelled, and run() has rejected
\* with a cancellation error.
C6_CancelWhileExecuting ==
  (cancelCalls > 0 /\ cancelSnap # {} /\ ~ENABLED (Advance \/ Unwind)) =>
    /\ status = "cancelled"
    /\ \A z \in cancelSnap : zstatus[z] = "cancelled"
    /\ dpc[0] = "rejected"
    /\ IsCancellation(dfail[0])

\* C7: a cancel() call that changes the state starts from a status other
\* than cancelled, makes the one transition to cancelled and emits exactly
\* one event, tao:fail; a cancel() call right after it finds the status
\* cancelled and changes nothing.
C7_CancelIdempotent ==
  [][Cancel => (status # "cancelled" /\ status' = "cancelled"
                /\ emits' = <<TaoFailEvent>>)]_vars

\* cancel() has taken effect once, while a step was executing.
C7_Witness ==
  /\ cancelCalls = 1
  /\ cancelSnap # {}
  /\ status = "cancelled"
  /\ emits = <<TaoFailEvent>>

\* C8: once the graph status is completed, failed or cancelled, no
\* operation and no continuation changes it (retry() apart).
C8_TerminalStable ==
  [][(status \in {"completed", "failed", "cancelled"}) => (status' = status)]_vars

\* C9: while the graph status is paused, no step goes from pending to
\* running.
C9_NoStartWhilePaused ==
  [][(status = "paused" /\ status' = "paused") =>
       \A z \in Zens : ~(zstatus[z] = "pending" /\ zstatus'[z] = "running")]_vars

\* C10: a paused graph whose functions all succeed and that is resumed
\* eventually has its run() resolved with status completed.
C10_ResumeCompletes ==
  (status = "paused") ~> (dpc[0] = "resolved" /\ status = "completed")

\* resume() has released a step that was waiting at the pause gate.
C10_Witness ==
  /\ status = "running"
  /\ \E z \in Zens : xpc[0][z] = "released"

\* The state of the steps and of the calls in progress: everything of the
\* program but the graph status and the pause promise.
stepVars == <<deps, retryFailedZensOnly, id, hasRun, runningTaos, retries,
              aborted, runningZens, zstatus, zvalue, zerror, dpc, dlayer,
              dfail, results, xpc, xerr, xsig, invoked, config, attempt,
              timer, late, ncalls, retryLog, cleared>>

\* C11: pause() on a graph that is not running and resume() on a graph that
\* is not paused change nothing and emit nothing; pause() on a running
\* graph emits exactly tao:pause and changes no step, and the resume() that
\* follows it immediately sets the status back to running, emits exactly
\* tao:resume and changes no step, executing steps included.
C11_PauseResume ==
  [][/\ (status # "running" /\ Pause) => UNCHANGED vars
     /\ (status # "paused" /\ Resume) => UNCHANGED vars
     /\ (status = "running" /\ Pause) =>
           (status' = "paused" /\ emits' = <<TaoPauseEvent>>
            /\ UNCHANGED stepVars)
     /\ (emits = <<TaoPauseEvent>> /\ Resume) =>
           (status' = "running" /\ emits' = <<TaoResumeEvent>>
            /\ pauseGate' = FALSE /\ UNCHANGED stepVars)]_vars

\* resume() has just returned on a graph paused while a step was executing;
\* the step is still executing.
C11_Witness ==
  /\ emits = <<TaoResumeEvent>>
  /\ status = "running"
  /\ pauseCalls > 0
  /\ \E z \in Zens : xpc[0][z] = "executing" /\ zstatus[z] = "running"

\* In the run, no step other than z has had its function fail.
OnlyFailureOf(z) == \A y \in Zens \ {z} : ~FnFailed(0, y)

\* The delay the policy c = <<maxAttempts, initialDelay, backoffFactor,
\* maxDelay>> prescribes after the failed attempt i.
PolicyDelay(c, i) == Min(c[2] * Pow(c[3], i - 1), c[4])

\* C12: when the function of a step with a retry policy has succeeded at
\* its call k + 1 after failing k times (no cancel(), no failure of another
\* step), exactly k zen:retry events have been emitted for the step, the
\* i-th with attempt i and delay min(initialDelay * backoffFactor^(i-1),
\* maxDelay), and the step is completed.
C12_RetryThenSucceed ==
  \A z \in Zens :
     (HasRetry(z) /\ cancelCalls = 0 /\ OnlyFailureOf(z)
        /\ ReachedCompleted(0, z)) =>
       LET k == ncalls[z] - 1 IN
       /\ zstatus[z] = "completed"
       /\ Len(retryLog[z]) = k
       /\ \A i \in 1..k :
             retryLog[z][i] = <<i, PolicyDelay(config[z].retry, i)>>

\* The execution of z by run() has ended with an error of its function.
EndedWithFnError(z) ==
  /\ xpc[0][z] \in {"taoErr", "taoErr2", "closeErr", "rejected"}
  /\ Len(xerr[0][z]) > 0
  /\ Head(xerr[0][z]) = "boom"

\* C13: when the execution of a step with a retry policy (maxAttempts >= 1)
\* has ended on a failure of its function, with no cancel() and no failure
\* of another step, the function was called exactly maxAttempts times,
\* exactly maxAttempts - 1 zen:retry events were emitted for the step, and
\* the step is failed with the error of the last attempt; the function is
\* never called more than maxAttempts times.
C13_RetriesExhausted ==
  \A z \in Zens :
     HasRetry(z) =>
       LET maxAttempts == config[z].retry[1] IN
       /\ ncalls[z] <= maxAttempts
       /\ (cancelCalls = 0 /\ OnlyFailureOf(z) /\ EndedWithFnError(z)) =>
            /\ ncalls[z] = maxAttempts
            /\ Len(retryLog[z]) = maxAttempts - 1
            /\ zstatus[z] = "failed"
            /\ zerror[z] = AttemptError(z, maxAttempts)

\* A step with maxAttempts = MaxAttempts has failed at every attempt.
C13_Witness ==
  /\ HasRetry("A")
  /\ config["A"].retry[1] = MaxAttempts
  /\ cancelCalls = 0
  /\ EndedWithFnError("A")
  /\ ncalls["A"] = MaxAttempts
  /\ zstatus["A"] = "failed"

\* C14: when the timer of a step with a timeout and no retry policy has
\* fired, the step's execution ends, whether or not the function is still
\* pending, with the step failed and carrying the timeout error; and when
\* no cancel() intervenes, run() rejects and the graph is failed.
C14_TimeoutFails ==
  /\ [][\A z \in Zens :
          (xerr[0][z] = TimedOut(z) /\ xpc[0][z] = "zenErr"
             /\ xpc'[0][z] # "zenErr") =>
            (zstatus'[z] = "failed" /\ zerror'[z] = TimedOut(z))]_vars
  /\ [](\A z \in Zens :
          (xerr[0][z] = TimedOut(z) /\ cancelCalls = 0) =>
            /\ dpc[0] # "resolved"
            /\ dpc[0] = "rejected" => status = "failed")

\* The step has ended failed on its timeout while its function is still
\* pending, and run() has rejected.
C14_Witness ==
  /\ HasTimeout("A")
  /\ xerr[0]["A"] = TimedOut("A")
  /\ late[0]["A"]
  /\ zstatus["A"] = "failed"
  /\ zerror["A"] = TimedOut("A")
  /\ dpc[0] = "rejected"
  /\ status = "failed"

\* C15: while an attempt of a step that has both a retry policy and a
\* timeout is executing, the timer of the timeout is armed for it.
C15_AttemptsTimed ==
  \A d \in Drivers : \A z \in Zens :
     (config[z].retry # NoRetry /\ config[z].timeout > 0
        /\ xpc[d][z] = "executing") =>
       timer[d][z] = "armed"

\* The execution of z by run() has ended on its timeout and
\* Tao.handleZenError has recorded the failure.
EndedTimedOut(z) ==
  /\ xerr[0][z] = TimedOut(z)
  /\ xpc[0][z] \in {"taoErr2", "closeErr", "rejected"}

\* C16: after a step has ended failed on its timeout (no cancel(), no
\* failure of another step), its status is failed and its result is
\* undefined, whatever its function does later.
C16_LateResultDiscarded ==
  \A z \in Zens :
     (EndedTimedOut(z) /\ cancelCalls = 0 /\ OnlyFailureOf(z)) =>
       (zstatus[z] = "failed" /\ result(z) = Undefined)

\* C17: for a step with a retry policy, once the cancellation token of the
\* run has fired the function of the step is not called again; a token
\* that fires during an attempt or during a backoff wait ends the step's
\* execution at once with a cancellation error; and no backoff wait is in
\* progress once the token has fired.
C17_CancelStopsRetry ==
  /\ [][\A z \in Zens :
          (HasRetry(z) /\ 0 \in aborted) => ncalls'[z] = ncalls[z]]_vars
  /\ [][\A z \in Zens :
          (HasRetry(z) /\ 0 \notin aborted /\ 0 \in aborted'
             /\ xpc[0][z] \in {"executing", "backoff"}) =>
            (xpc'[0][z] = "zenErr" /\ IsCancellation(xerr'[0][z]))]_vars
  /\ [](\A z \in Zens :
          (HasRetry(z) /\ xpc[0][z] = "backoff") => 0 \notin aborted)

\* C18: with retryFailedZensOnly set, a retry() does not call the function
\* of a step that was completed when retry() was called; and when it has
\* resolved, it has called the function of every other step and its result
\* map holds, for every step, the value cached by run() if the step was
\* completed and the value computed by the retry otherwise.
C18_RetryFailedOnly ==
  (retryFailedZensOnly /\ retries = 1) =>
    /\ \A z \in retrySnap : z \notin invoked[1]
    /\ dpc[1] = "resolved" =>
         \A z \in Zens :
            IF z \in retrySnap
            THEN results[1][z] = FnValue(0, z)
            ELSE z \in invoked[1] /\ results[1][z] = FnValue(1, z)

\* C19: a retry() called when the graph status is not failed or cancelled,
\* or when the graph is not registered, rejects at once, emits no event,
\* and changes neither the graph status, nor the cancellation token, nor
\* any step, nor anything else of the graph.
C19_RetryRefused ==
  [][((status \notin {"failed", "cancelled"} \/ ~id) /\ Retry) =>
       /\ retryResult' =
            IF status \notin {"failed", "cancelled"} THEN OnlyFailedRetry
            ELSE NotRegistered
       /\ emits' = << >>
       /\ UNCHANGED progVars]_vars

\* retry() has just been refused on a failed or cancelled graph that is not
\* registered, one of whose steps has failed or was cancelled.
C19_Witness ==
  /\ retryResult = NotRegistered
  /\ status \in {"failed", "cancelled"}
  /\ ~id
  /\ \E z \in Zens : zstatus[z] \in {"failed", "cancelled"}
  /\ dpc[0] = "rejected"

\* C20: a run() called on a graph that has not run while the counter of
\* running graphs is at the limit rejects with the limit error, emits
\* nothing, invokes no function and changes nothing of the graph or of the
\* counter (the status, the has-run flag and every step stay as they were);
\* and a run() called on a graph refused so, once the counter is below the
\* limit, is admitted: it takes a slot of the counter and starts running.
C20_RunAtLimit ==
  /\ [][(~hasRun /\ runningTaos >= maxConcurrentTaos /\ Run) =>
          /\ runResult' = TooManyTaos
          /\ emits' = << >>
          /\ UNCHANGED progVars]_vars
  /\ [][(refused /\ ~hasRun /\ runningTaos < maxConcurrentTaos /\ Run) =>
          /\ runResult' = Admitted
          /\ hasRun'
          /\ status' = "running"
          /\ runningTaos' = runningTaos + 1
          /\ emits' = updateStatus("running")
          /\ dpc'[0] = "start"]_vars

\* A graph whose run() was refused at the limit has been run again with the
\* counter below the limit, and that run() has resolved with every step
\* completed.
C20_Witness ==
  /\ refused
  /\ otherDone > 0
  /\ dpc[0] = "resolved"
  /\ status = "completed"
  /\ \A z \in Zens : zstatus[z] = "completed"

\* The graph's admitted run() has not settled.
RunUnsettled == dpc[0] \notin {"idle", "resolved", "rejected"}

\* C21: in every reachable state the running counter equals the number of
\* graphs whose admitted run() has not settled (this graph when its run()
\* is unsettled, and the other graphs), and that number is at most the
\* limit.
C21_CounterExact ==
  /\ runningTaos = otherTaos + (IF RunUnsettled THEN 1 ELSE 0)
  /\ otherTaos + (IF RunUnsettled THEN 1 ELSE 0) <= maxConcurrentTaos

\* C22: every event emitted, over run, pause, resume and cancel, has a
\* type of the closed set TaozenEventType.
C22_EventTypesClosed ==
  \A i \in 1..Len(emits) : EventType(emits[i]) \in TaozenEventType

\* The events just emitted hold one of type t.
Emitted(t) == \E i \in 1..Len(emits') : EventType(emits'[i]) = t

\* C23: the admission of run() emits tao:start; the step of a run() that
\* sets the graph completed emits tao:complete, so that an onFinish
\* listener is called exactly once; and the step that sets the graph failed
\* after a step has failed emits tao:fail.
C23_LifecycleEvents ==
  [][/\ (~hasRun /\ hasRun') => Emitted(<<"tao", "start">>)
     /\ (status # "completed" /\ status' = "completed") =>
           (Emitted(<<"tao", "complete">>) /\ onFinish(emits') = 1)
     /\ (status # "failed" /\ status' = "failed") =>
           Emitted(<<"tao", "fail">>)]_vars

\* The dependencies of z that are not completed.
Unmet(z) == {y \in deps[z] : zstatus[y] # "completed"}

\* The closure of z in the call d starts the step in this very step: it
\* passes the two guards of Zen._execute (the step is not running, the
\* signal is not aborted) and sets the step running.
StartsNow(d, z) ==
  /\ xpc[d][z] \in {"none", "released"}
  /\ xpc'[d][z] \in {"depsWait", "taoErr"}
  /\ zstatus[z] # "running"
  /\ retries \notin aborted

\* C24: a step that starts while one of its dependencies is not completed
\* fails with the dependency error naming such a dependency, without its
\* function being called and with its value left as it was; a step that
\* starts with every dependency completed goes on to call its function;
\* and a closure that ended on a dependency error has never called the
\* function and has stored no result.
C24_UnresolvedDependency ==
  /\ [][\A d \in Drivers, z \in Zens :
          StartsNow(d, z) =>
            IF Unmet(z) # {}
            THEN /\ xpc'[d][z] = "taoErr"
                 /\ \E y \in Unmet(z) : xerr'[d][z] = DepNotCompleted(y)
                 /\ zstatus'[z] = "failed"
                 /\ zerror'[z] = xerr'[d][z]
                 /\ zvalue'[z] = zvalue[z]
                 /\ invoked'[d] = invoked[d]
                 /\ ncalls'[z] = ncalls[z]
            ELSE xpc'[d][z] = "depsWait"]_vars
  /\ [](\A d \in Drivers, z \in Zens :
          (\E y \in Zens : xerr[d][z] = DepNotCompleted(y)) =>
            (z \notin invoked[d] /\ results[d][z] = Undefined))

\* A closure has ended on a dependency error.
C24_Witness ==
  \E d \in Drivers, z \in Zens :
     /\ \E y \in deps[z] : xerr[d][z] = DepNotCompleted(y)
     /\ xpc[d][z] = "rejected"
     /\ zstatus[z] = "failed"
     /\ z \notin invoked[d]

\* C25: once cancel() has been called while run() is pending (before its
\* first batch or while it waits for a batch), run() eventually rejects and
\* the counter no longer holds the graph's slot.
C25_CancelSettlesRun ==
  (cancelCalls > 0 /\ dpc[0] \in {"start", "waitBatch"})
     ~> (dpc[0] = "rejected" /\ runningTaos = otherTaos)

\* C26: a Tao.pause(taoId) that returns true on a registered running graph
\* sets the status of the graph to paused; and from such a call until the
\* graph is resumed no step goes from pending to running.
C26_StaticPause ==
  /\ [][(StaticPause /\ pauseReturn') => status' = "paused"]_vars
  /\ [][(pauseReturn /\ store.paused /\ ~(Resume /\ status = "paused")) =>
          \A z \in Zens : ~(zstatus[z] = "pending" /\ zstatus'[z] = "running")]_vars

\* The batches (1-based) of the execution order that hold z.
LayersOf(z) ==
  {i \in 1..Len(getExecutionOrder) : z \in SeqRange(getExecutionOrder[i])}

\* C27: on a graph without cycle, getExecutionOrder returns batches of
\* steps of the graph, none empty and none holding a step twice; every
\* step is in exactly one batch; and every dependency of a step is in a
\* batch strictly before the step's.
C27_OrderIsPartition ==
  ~HasCycle =>
    /\ \A i \in 1..Len(getExecutionOrder) :
          /\ Len(getExecutionOrder[i]) > 0
          /\ SeqRange(getExecutionOrder[i]) \subseteq Zens
          /\ Cardinality(SeqRange(getExecutionOrder[i])) = Len(getExecutionOrder[i])
    /\ \A z \in Zens : Cardinality(LayersOf(z)) = 1
    /\ \A z \in Zens : \A y \in deps[z] :
          \A i \in LayersOf(z), j \in LayersOf(y) : j < i

\* run() has started the second batch of a graph of three batches.
C27_Witness ==
  /\ ~HasCycle
  /\ Len(getExecutionOrder) = 3
  /\ dpc[0] = "waitBatch"
  /\ dlayer[0] = 2

\* The largest number of a set of positive numbers, 0 for the empty set.
MaxOf(S) == IF S = {} THEN 0 ELSE CHOOSE n \in S : \A k \in S : k <= n

\* C28: on a graph without cycle every step is in the earliest batch its
\* dependencies allow: the first batch when it has no dependency, else the
\* batch after the last batch of its dependencies.
C28_EarliestBatch ==
  ~HasCycle =>
    \A z \in Zens : \A i \in LayersOf(z) :
       i = 1 + MaxOf(UNION {LayersOf(y) : y \in deps[z]})

\* The two middle steps of the diamond, in no dependency of one another,
\* are executing at the same time.
C28_Witness ==
  /\ deps = Diamond
  /\ xpc[0]["B"] = "executing"
  /\ xpc[0]["C"] = "executing"

\* C29: in every run() or retry(), once the closure of a step has started,
\* the closure of every step of an earlier batch has finished in that call
\* with a result stored: none is executing, waiting at the pause gate, or
\* rejected.
C29_BatchBarrier ==
  LET order == getExecutionOrder IN
  \A d \in Drivers :
     dpc[d] # "idle" /\ ~IsCircular(order) =>
       \A j \in 2..Len(order) :
          (\E z \in SeqRange(order[j]) : xpc[d][z] # "none") =>
            \A y \in SeqRange(order[j - 1]) :
               xpc[d][y] = "done" /\ results[d][y] # Undefined

\* After a pause(), a retry() that has called the function of every step
\* of its first batch is executing a step of its second batch.
C29_Witness ==
  /\ pauseCalls > 0
  /\ deps = Chain
  /\ xpc[1]["B"] = "executing"
  /\ "A" \in invoked[1]

\* The calls in which an invocation of the function of z is in flight:
\* the function was called and its promise has not settled.
InFlight(z) == {d \in Drivers : xpc[d][z] = "executing"}

\* C30: at any time, at most one invocation of the function of a step is
\* in flight.
C30_SingleInvocation ==
  \A z \in Zens : Cardinality(InFlight(z)) <= 1

TerminalZenStatuses == {"completed", "failed", "cancelled"}

\* C31: the status of a step changes only from pending to running, from
\* running to completed, failed or cancelled, and from one of these three
\* back to pending in the reset of an admitted retry().
C31_StepLifecycle ==
  [][\A z \in Zens :
       zstatus'[z] # zstatus[z] =>
         \/ zstatus[z] = "pending" /\ zstatus'[z] = "running"
         \/ zstatus[z] = "running" /\ zstatus'[z] \in TerminalZenStatuses
         \/ /\ zstatus[z] \in TerminalZenStatuses
            /\ zstatus'[z] = "pending"
            /\ retries' = retries + 1]_vars

\* C32: a step's readable result is defined only while its status is
\* completed, and its error is defined only while its status is failed or
\* cancelled.
C32_ResultAndErrorMatchStatus ==
  \A z \in Zens :
    /\ result(z) # Undefined => zstatus[z] = "completed"
    /\ zerror[z] # NoError => zstatus[z] \in {"failed", "cancelled"}

\* C33: the pause gate is present exactly when the status of the graph is
\* paused.
C33_GateIffPaused == pauseGate <=> status = "paused"

\* Tao.handleZenError runs, in the call d, for the failure of the zen z.
HandlesFailure(d, z) == xpc[d][z] = "taoErr" /\ xpc'[d][z] = "taoErr2"

\* C34: when the graph handles the failure of a step with an error that is
\* no cancellation, every other step of the batch whose function is still
\* executing is marked failed with the failed-by-association error and has
\* its cancellation callback invoked (counted up to MaxOnCancel), and the
\* handler leaves the graph failed.
C34_SiblingsStopped ==
  [][\A d \in Drivers, z \in Zens :
       /\ HandlesFailure(d, z) /\ ~IsCancellation(xerr[d][z]) =>
            \A y \in Zens \ {z} :
               xpc[d][y] = "executing" =>
                 /\ zstatus'[y] = "failed"
                 /\ zerror'[y] = FailedByOther
                 /\ \/ onCancel'[d][y] > onCancel[d][y]
                    \/ onCancel[d][y] = MaxOnCancel
       /\ xpc[d][z] = "taoErr2" /\ xpc'[d][z] = "closeErr" =>
            status' = "failed"]_vars

\* C35: within one run() or retry(), the cancellation callback of a step
\* is invoked at most once.
C35_OnCancelOnce ==
  \A d \in Drivers, z \in Zens : onCancel[d][z] <= 1

Completes(d, z) == xpc[d][z] = "closeOk" /\ xpc'[d][z] = "done"

\* C37: when a closure delivers zen:complete for its step, no step of the
\* call whose function resolved later has had its zen:complete delivered
\* before; and a closure emits zen:complete once: a step emits as many
\* zen:complete events as closures finish in it, and a finished closure
\* stays finished.
C37_CompleteInResolveOrder ==
  [][\A d \in Drivers, z \in Zens :
       /\ Completes(d, z) =>
            \A y \in Zens : z \in resolvedBefore[d][y] => xpc[d][y] # "done"
       /\ xpc[d][z] = "done" => xpc'[d][z] = "done"
       /\ Cardinality({i \in 1..Len(emits') : emits'[i] = ZenCompleteEvent})
            = Cardinality({p \in Drivers \X Zens : Completes(p[1], p[2])})]_vars

\* C38: whenever the status of the graph is completed, every step of the
\* graph has status completed.
C38_CompletedMeansAllCompleted ==
  status = "completed" => \A z \in Zens : zstatus[z] = "completed"

\* C39: in a graph reconstructed from the store, every id of a step's
\* dependency set and every id of the computed execution order is a key of
\* the step map, and a retry on it does not end on a step that the map does
\* not hold.
C39_RestoredIdsAreKeys ==
  restored.pc # "none" =>
    LET order == RestoredOrder(restored) IN
    /\ \A k \in DOMAIN restored.zens :
          restored.zens[k].deps \subseteq DOMAIN restored.zens
    /\ \A i \in 1..Len(order) :
          order[i] # CircularDependency =>
             SeqRange(order[i]) \subseteq DOMAIN restored.zens
    /\ restored.error # UndefinedZen
====
